---- MODULE Spec2Model ----
(***************************************************************************)
(* Verification model of the guppybot daemon (guppybot/src/daemon.rs) and  *)
(* of the tooling library it drives.                                       *)
(*                                                                         *)
(* The specifications share the state of the daemon's Context:             *)
(*   SpecCodec    the life of one BotWsSender (send_auth / recv_auth);      *)
(*   SpecAuth     the event loop's Auth / RegisterMachine sequences and     *)
(*                the IPC polls on them;                                    *)
(*   SpecRun      the CI run pipeline: _NewCiRun, worker thread, loopback;  *)
(*   SpecWatchdog the registry connection's hangups and backoff watchdog;   *)
(*   SpecIpc      the IPC arm of the event loop, one connection at a time;  *)
(*   SpecParse    the taskspec parser on streams of task blocks;            *)
(*   SpecImages   the image manifest: load, lookup_docker_image, dump;      *)
(*   SpecConn     the daemon from its start: connection threads, the        *)
(*                rendezvous of _reconnect_reg, watchdog and event loop;    *)
(*   SpecEcho     the keepalive timers and _Ping of an open connection;     *)
(*   SpecManifest the event loop and the worker on the image manifest file; *)
(*   SpecInbound  inbound registry frames that fail a check of recv_auth,   *)
(*                with the configuration reloaded in between;               *)
(*   SpecDrop     a CI run while the registry connection drops and reopens; *)
(*   SpecEvbuf    the event buffer and its two polls;                       *)
(*   SpecDirective the taskspec parser on malformed directive lines;        *)
(*   SpecLoad     ImageManifest::load on files with lines that fail.        *)
(***************************************************************************)
EXTENDS Integers, Sequences, FiniteSets, TLC

VARIABLES
  reg_sender,        \* Context.reg_sender : Option<BotWsSender>
  wire,              \* frames handed to ws::Sender::send without error, in order
  wire_msg,          \* history: the message each frame of wire was encoded from
  codec,             \* the last send_auth / recv_auth call and what it returned
  api_cfg,           \* Context.api_cfg : Option<ApiConfig>
  machine_cfg,       \* Context.machine_cfg : Option<MachineConfigV0>
  auth_maybe,        \* Context.auth_maybe
  auth,              \* Context.auth
  machine_reg_maybe, \* Context.machine_reg_maybe
  machine_reg,       \* Context.machine_reg
  root_manifest,     \* Shared.root_manifest : the in-memory auth_bit / mach_reg_bit
  disk_flags,        \* the flag byte of the root manifest file
  ctl_reply,         \* the Bot2Ctl reply written to the last IPC connection
  last,              \* the event the event loop handled last
  hist,              \* history of each sequence since its last retry
  loop,              \* the main thread: "new", "select", "panicked", "exited", or
                     \* where it waits outside the select: "rendezvous", "joining"
  run,               \* history of the _NewCiRun the event loop handled
  workerlb,          \* the queue of WorkerLbMsg::CiTask to the worker thread
  worker,            \* the worker thread, with the console monitor of its task
  loopback,          \* the queue of LoopbackMsg to the event loop
  reconn,            \* Context.reconnect : the Reconnect record, and the watchdog thread
  ipc,               \* the IPC connections: accepted, handled, replied, closed
  parse,             \* a taskspec file and what _taskspecs made of it
  images,            \* the image manifest, in memory and on disk, and the builds
  net,               \* the registry connections, their signals and keepalive timers
  mf,                \* the threads that resolve images, and the manifest file they share
  evbuf,             \* Context.evbuf : VecDeque<Event>, and history of its polls
  checkout           \* the GitCheckoutSpec of the run: its Arc<TempDir> and the directory

-----------------------------------------------------------------------------
(* Bounds of the model.                                                    *)

MaxCodecSends == 1
MaxAuthSends == 1
MaxTasks == 2
MaxLines == 2
MaxSendFailures == 1

(* Program constants.                                                      *)

SigLen == 32
HeaderLen == 36
TokenLen == 32
ApiKeyLen == 48

-----------------------------------------------------------------------------
(* Byte strings.                                                           *)

Byte == 0 .. 255

RECURSIVE DigestTo(_, _)
DigestTo(data, n) ==
  IF n = 0 THEN 7 ELSE (DigestTo(data, n - 1) * 31 + data[n] + 1) % 251

Digest(data) == DigestTo(data, Len(data))

Zeros(n) == [i \in 1 .. n |-> 0]

\* The element of a singleton set: The({e(x) : x \in {v}}) is e(v), with v
\* computed once.
The(S) == CHOOSE x \in S : TRUE

\* &bin[lo .. hi] of Rust: bytes lo (0-based, included) to hi (excluded).
Slice(bin, lo, hi) == SubSeq(bin, lo + 1, hi)

-----------------------------------------------------------------------------
(* base64 and the secret token.                                            *)

KeyA == [i \in 1 .. 32 |-> i]
KeyB == [i \in 1 .. 32 |-> (3 * i + 7) % 256]

\* base64::decode_config_buf(.., URL_SAFE, ..): the texts the model uses and
\* what each decodes to (ok = FALSE: not base64).
Base64Decode(b64_str) ==
  CASE b64_str = "tokA"     -> [ok |-> TRUE,  buf |-> KeyA]
    [] b64_str = "tokB"     -> [ok |-> TRUE,  buf |-> KeyB]
    [] b64_str = "tokShort" -> [ok |-> TRUE,  buf |-> SubSeq(KeyA, 1, 31)]
    [] b64_str = "tokLong"  -> [ok |-> TRUE,  buf |-> KeyA \o <<33>>]
    [] b64_str = "idGood"   -> [ok |-> TRUE,  buf |-> [i \in 1 .. 48 |-> 100 + i]]
    [] b64_str = "idShort"  -> [ok |-> TRUE,  buf |-> [i \in 1 .. 47 |-> 100 + i]]
    [] OTHER                -> [ok |-> FALSE, buf |-> << >>]

\* Option<Vec<u8>>: None is the empty sequence (len_bytes is never 0).
NoBuf == << >>

base64_str_to_vec(len_bytes, b64_str) ==
  LET dec == Base64Decode(b64_str) IN
  IF ~dec.ok THEN NoBuf
  ELSE IF Len(dec.buf) # len_bytes THEN NoBuf
  ELSE dec.buf

base64_str_to_buf(len_bytes, b64_str) == base64_str_to_vec(len_bytes, b64_str)

Tokens == {"tokA", "tokB", "tokShort", "tokBad"}

\* Option<&ApiAuth> as a caller supplies it.
NoAuth == [present |-> FALSE, api_key |-> "", secret_token |-> ""]
ApiAuth(id, tok) == [present |-> TRUE, api_key |-> id, secret_token |-> tok]

-----------------------------------------------------------------------------
(* The keyed authentication primitive (monosodium auth_sign / auth_verify) *)
(* and the message serialization (schemas serialize_revision_into /        *)
(* deserialize_revision).                                                  *)

auth_sign(payload_buf, key) ==
  LET d == Digest(payload_buf) IN
  [i \in 1 .. SigLen |-> (key[i] * 5 + i * 3 + d) % 256]

auth_verify(sig_buf, payload_buf, key) == sig_buf = auth_sign(payload_buf, key)

NoMsg == [tag |-> "None", a |-> 0, b |-> 0]
Msg(tag, a, b) == [tag |-> tag, a |-> a, b |-> b]

TagByte(tag) ==
  CASE tag = "_Ping"             -> 1
    [] tag = "Auth"              -> 2
    [] tag = "RegisterMachine"   -> 3
    [] tag = "_NewCiRun"         -> 4
    [] tag = "_StartCiTask"      -> 5
    [] tag = "_AppendCiTaskData" -> 6
    [] tag = "_DoneCiTask"       -> 7
    [] tag = "_Pong"             -> 8
    [] tag = "AuthReply"         -> 9
    [] tag = "RegisterMachineReply" -> 10
    [] tag = "_NewCiRunRequest"  -> 11
    [] tag = "RegisterCiMachine" -> 12
    [] tag = "RegisterCiRepo"    -> 13
    [] OTHER                     -> 0

ByteTag(byte) ==
  CASE byte = 1 -> "_Ping"
    [] byte = 2 -> "Auth"
    [] byte = 3 -> "RegisterMachine"
    [] byte = 4 -> "_NewCiRun"
    [] byte = 5 -> "_StartCiTask"
    [] byte = 6 -> "_AppendCiTaskData"
    [] byte = 7 -> "_DoneCiTask"
    [] byte = 8 -> "_Pong"
    [] byte = 9 -> "AuthReply"
    [] byte = 10 -> "RegisterMachineReply"
    [] byte = 11 -> "_NewCiRunRequest"
    [] byte = 12 -> "RegisterCiMachine"
    [] byte = 13 -> "RegisterCiRepo"
    [] OTHER    -> "None"

\* Bot2RegistryV0 keeps the variant names of the source; the variants of
\* Registry2BotV0 that share a name are AuthReply, RegisterMachineReply
\* (field a: 1 for Some, 0 for None) and _NewCiRunRequest.
\* The fields a variant carries on the wire: 0, 1 or 2 bytes after the tag.
Arity(tag) ==
  CASE tag \in {"_Ping", "_Pong"}                 -> 0
    [] tag \in {"Auth", "RegisterMachine", "RegisterCiMachine", "RegisterCiRepo",
                "AuthReply", "RegisterMachineReply"} -> 1
    [] tag \in {"_NewCiRun", "_StartCiTask", "_AppendCiTaskData",
                "_DoneCiTask", "_NewCiRunRequest"}  -> 2
    [] OTHER                                     -> 0

serialize_revision(msg) ==
  CASE Arity(msg.tag) = 0 -> <<TagByte(msg.tag)>>
    [] Arity(msg.tag) = 1 -> <<TagByte(msg.tag), msg.a>>
    [] OTHER              -> <<TagByte(msg.tag), msg.a, msg.b>>

\* Err(_) is NoMsg.
deserialize_revision(buf) ==
  IF Len(buf) = 0 THEN NoMsg
  ELSE LET tag == ByteTag(buf[1]) IN
       IF tag = "None" \/ Len(buf) # 1 + Arity(tag) THEN NoMsg
       ELSE Msg(tag,
                IF Arity(tag) >= 1 THEN buf[2] ELSE 0,
                IF Arity(tag) >= 2 THEN buf[3] ELSE 0)

LE32(n) == <<n % 256, (n \div 256) % 256, (n \div 65536) % 256, (n \div 16777216) % 256>>
FromLE32(b) == b[1] + 256 * b[2] + 65536 * b[3] + 16777216 * b[4]

-----------------------------------------------------------------------------
(* BotWsSender: the signed channel codec.                                  *)

\* ResolveToken falling back to a built-in key when no ApiAuth is supplied.
ResolveToken_DefaultKey(secret_token_buf, a) ==
  IF secret_token_buf # NoBuf THEN secret_token_buf
  ELSE IF ~a.present THEN KeyA
  ELSE base64_str_to_buf(TokenLen, a.secret_token)

\* The lazy resolution of the secret token that opens send_auth and
\* recv_auth: the cached buffer if there is one, else the decoded token of
\* the ApiAuth supplied, else None.
ResolveToken(secret_token_buf, a) ==
  IF secret_token_buf # NoBuf THEN secret_token_buf
  ELSE IF ~a.present THEN NoBuf
  ELSE base64_str_to_buf(TokenLen, a.secret_token)

\* EncodeFrame with the whole buffer length written as the payload length.
EncodeFrame_LenWithHeader(key, msg) ==
  LET bin0        == Zeros(HeaderLen) \o serialize_revision(msg)
      payload_buf == LE32(Len(bin0)) \o Slice(bin0, HeaderLen, Len(bin0))
  IN  auth_sign(payload_buf, key) \o payload_buf

\* The frame send_auth builds: 36 zero bytes and the serialized message,
\* the payload length written little-endian at [32 .. 36], the signature
\* of bytes [32 ..] written at [0 .. 32] (bin0, then bin1, then payload_buf,
\* each computed once).
EncodeFrame(key, msg) ==
  The({ The({ The({ auth_sign(payload_buf, key) \o payload_buf :
                    payload_buf \in {Slice(bin1, SigLen, Len(bin1))} }) :
              bin1 \in {Slice(bin0, 0, SigLen) \o LE32(Len(bin0) - HeaderLen)
                          \o Slice(bin0, HeaderLen, Len(bin0))} }) :
        bin0 \in {Zeros(HeaderLen) \o serialize_revision(msg)} })

\* transport_ok: whether ws::Sender::send accepts the frame.
send_auth(secret_token_buf, a, msg, transport_ok) ==
  LET buf == ResolveToken(secret_token_buf, a) IN
  IF buf = NoBuf
    THEN [err |-> "API authentication config is required",
          buf |-> buf, sent |-> FALSE, bin |-> << >>]
  ELSE IF ~transport_ok
    THEN [err |-> "websocket transmission failure",
          buf |-> buf, sent |-> FALSE, bin |-> << >>]
  ELSE [err |-> "ok", buf |-> buf, sent |-> TRUE, bin |-> EncodeFrame(buf, msg)]

\* verified / len_checked / parsed: whether the call reached auth_verify,
\* the length comparison and deserialize_revision.
RecvResult(err, buf, msg, verified, len_checked, parsed) ==
  [err |-> err, buf |-> buf, msg |-> msg,
   verified |-> verified, len_checked |-> len_checked, parsed |-> parsed]

\* recv_auth comparing the length field before it verifies the signature.
recv_auth_LenFirst(secret_token_buf, a, bin) ==
  LET buf == ResolveToken(secret_token_buf, a) IN
  IF buf = NoBuf
    THEN RecvResult("API authentication config is required", buf, NoMsg, FALSE, FALSE, FALSE)
  ELSE IF Len(bin) < HeaderLen
    THEN RecvResult("API message protocol failure", buf, NoMsg, FALSE, FALSE, FALSE)
  ELSE IF FromLE32(Slice(bin, SigLen, HeaderLen)) # Len(Slice(bin, HeaderLen, Len(bin)))
    THEN RecvResult("API message self-consistency failure", buf, NoMsg, FALSE, TRUE, FALSE)
  ELSE IF ~auth_verify(Slice(bin, 0, SigLen), Slice(bin, SigLen, Len(bin)), buf)
    THEN RecvResult("API message verification failure", buf, NoMsg, TRUE, TRUE, FALSE)
  ELSE LET msg == deserialize_revision(Slice(bin, HeaderLen, Len(bin))) IN
       IF msg = NoMsg
         THEN RecvResult("API message deserialization failure", buf, NoMsg, TRUE, TRUE, TRUE)
         ELSE RecvResult("ok", buf, msg, TRUE, TRUE, TRUE)

\* recv_auth without the size check: the slices [0 .. 32] and [32 .. 36]
\* of a short frame are out of range and abort the thread.
recv_auth_NoSizeCheck(secret_token_buf, a, bin) ==
  LET buf == ResolveToken(secret_token_buf, a) IN
  IF buf = NoBuf
    THEN RecvResult("API authentication config is required", buf, NoMsg, FALSE, FALSE, FALSE)
  ELSE IF Len(bin) < SigLen
    THEN RecvResult("panic", buf, NoMsg, FALSE, FALSE, FALSE)
  ELSE IF ~auth_verify(Slice(bin, 0, SigLen), Slice(bin, SigLen, Len(bin)), buf)
    THEN RecvResult("API message verification failure", buf, NoMsg, TRUE, FALSE, FALSE)
  ELSE IF Len(bin) < HeaderLen
    THEN RecvResult("panic", buf, NoMsg, TRUE, FALSE, FALSE)
  ELSE IF FromLE32(Slice(bin, SigLen, HeaderLen)) # Len(Slice(bin, HeaderLen, Len(bin)))
    THEN RecvResult("API message self-consistency failure", buf, NoMsg, TRUE, TRUE, FALSE)
  ELSE LET msg == deserialize_revision(Slice(bin, HeaderLen, Len(bin))) IN
       IF msg = NoMsg
         THEN RecvResult("API message deserialization failure", buf, NoMsg, TRUE, TRUE, TRUE)
         ELSE RecvResult("ok", buf, msg, TRUE, TRUE, TRUE)

recv_auth(secret_token_buf, a, bin) ==
  LET buf == ResolveToken(secret_token_buf, a) IN
  IF buf = NoBuf
    THEN RecvResult("API authentication config is required", buf, NoMsg, FALSE, FALSE, FALSE)
  ELSE IF Len(bin) < HeaderLen
    THEN RecvResult("API message protocol failure", buf, NoMsg, FALSE, FALSE, FALSE)
  ELSE IF ~auth_verify(Slice(bin, 0, SigLen), Slice(bin, SigLen, Len(bin)), buf)
    THEN RecvResult("API message verification failure", buf, NoMsg, TRUE, FALSE, FALSE)
  ELSE IF FromLE32(Slice(bin, SigLen, HeaderLen)) # Len(Slice(bin, HeaderLen, Len(bin)))
    THEN RecvResult("API message self-consistency failure", buf, NoMsg, TRUE, TRUE, FALSE)
  ELSE LET msg == deserialize_revision(Slice(bin, HeaderLen, Len(bin))) IN
       IF msg = NoMsg
         THEN RecvResult("API message deserialization failure", buf, NoMsg, TRUE, TRUE, TRUE)
         ELSE RecvResult("ok", buf, msg, TRUE, TRUE, TRUE)

-----------------------------------------------------------------------------
(* State shared by the specifications.                                     *)

codecVars == <<reg_sender, wire, wire_msg, codec>>
authVars  == <<api_cfg, machine_cfg, auth_maybe, auth, machine_reg_maybe, machine_reg,
               root_manifest, disk_flags, ctl_reply, last, hist, loop>>

runVars   == <<run, workerlb, worker, loopback, checkout>>
restVars  == <<reconn, ipc, parse, images, net, mf, evbuf>>

\* Option<BotWsSender>: None, or the object on_open builds.
NoSender == [some |-> FALSE, secret_token_buf |-> NoBuf]
BotWsSender(buf) == [some |-> TRUE, secret_token_buf |-> buf]

NoCall ==
  [op |-> "none", a |-> NoAuth, buf_before |-> NoBuf, src |-> "none", msg_in |-> NoMsg,
   bin |-> << >>, orig |-> NoMsg, err |-> "none", buf |-> NoBuf, sent |-> FALSE,
   msg |-> NoMsg, verified |-> FALSE, len_checked |-> FALSE, parsed |-> FALSE]

Seqs == {"Auth", "RegisterMachine"}

NoEvent ==
  [ev |-> "none", seq |-> "none", fresh |-> FALSE,
   confirmed_before |-> FALSE, write_failed |-> FALSE]

NoReply == [op |-> "none", ack |-> "none", some |-> FALSE]

\* No _NewCiRun was handled: pre is what the handler failed on ("ok" when
\* on nothing), parsed once checkout and taskspec succeeded, task_count the
\* tasks they yielded, dropped the sends that failed, lines the console
\* lines read, taken the tasks the worker has taken and finished, watched
\* one of the tasks that ended in a failure, with how it ended.
NoRun ==
  [state |-> "none", pre |-> "none", parsed |-> FALSE, task_count |-> 0, dropped |-> 0,
   lines |-> 0, taken |-> 0, watched |-> [task_nr |-> 0, how |-> "none"]]

\* The worker thread blocked in workerlb_r.recv(); while it runs a task:
\* the monitor's part_nr and whether its buffer holds bytes (occ_sz > 0).
WorkerIdle == [state |-> "idle", task_nr |-> 0, part_nr |-> 0, occ |-> FALSE]

\* Reconnect as Context::new builds it (delays in half seconds), with the
\* watchdog thread blocked in watchdog_r.recv() and no connection thread.
\* History: handled (a hangup was handled), opened_since (on_open ran since
\* the last handled hangup), reopened (on_open ran after a handled hangup),
\* skipped (hangups the watchdog took up while the connection was open),
\* woke_open (the watchdog woke up to an open connection).
ReconnectNew ==
  [open |-> FALSE, backoff_count |-> 0, backoff_delay_lo |-> 0, backoff_delay_hi |-> 0,
   conn |-> "none", watchdog_q |-> 0, wd |-> "recv", echo2 |-> 0,
   handled |-> FALSE, opened_since |-> FALSE, reopened |-> FALSE,
   skipped |-> FALSE, woke_open |-> FALSE]

\* No IPC connection was accepted. ctlchan: the requests of the connections
\* queued to the event loop. History of the connection handled last:
\* received (the Ctl2Bot variant, "none" when recv failed), arm (what the
\* event loop did with it), replies (replies written), closed.
NoIpc ==
  [ctlchan |-> << >>, received |-> "none", arm |-> "none", replies |-> 0,
   closed |-> FALSE, served |-> 0]

\* No taskspec stream was parsed. The stream is Lines(blocks) \o fault.lines
\* \o tail; result is what _taskspecs returned for it.
NoParse ==
  [blocks |-> << >>, fault |-> [kind |-> "none", lines |-> << >>], tail |-> << >>,
   result |-> [res |-> "none", tasks |-> << >>]]

\* ImageSpec, with the enums named by their description strings (the strings
\* of the manifest file, state.rs 366-405); toolchain is a Toolchain or "None".
builtin_default ==
  [cuda |-> "None", distro_codename |-> "alpine_3_8", distro_id |-> "alpine",
   docker |-> TRUE, nvidia_docker |-> FALSE, toolchain |-> "Builtin"]

\* The ImageSpecs resolved: the builtin image, a task image with a base image,
\* an nvidia image, and one with no base image candidate (cuda without
\* nvidia_docker).
ImageSpecs ==
  { builtin_default,
    [cuda |-> "None", distro_codename |-> "debian_stretch", distro_id |-> "debian",
     docker |-> TRUE, nvidia_docker |-> FALSE, toolchain |-> "Python3"],
    [cuda |-> "v10_0", distro_codename |-> "ubuntu_bionic", distro_id |-> "ubuntu",
     docker |-> TRUE, nvidia_docker |-> TRUE, toolchain |-> "None"],
    [cuda |-> "v10_0", distro_codename |-> "ubuntu_xenial", distro_id |-> "ubuntu",
     docker |-> TRUE, nvidia_docker |-> FALSE, toolchain |-> "Default"] }

\* No image was resolved: no manifest is loaded and the manifest file does not
\* exist. built lists the ImageSpecs `docker build` was spawned for, handles
\* the (ImageSpec, hash digest) pairs returned, dump_failed tells that a dump
\* returned Err; last is the last operation, with the manifest in memory and
\* on disk before it and, of a lookup that spawned `docker build`, how the
\* build exited.
NoImages ==
  [root_key |-> KeyA, loaded |-> FALSE, imagespecs |-> << >>,
   disk |-> [exists |-> FALSE, lines |-> << >>],
   built |-> << >>, handles |-> {}, dump_failed |-> FALSE, resolves |-> 0,
   last |-> [op |-> "none", res |-> "none", spec |-> builtin_default,
             hit |-> FALSE, spawned |-> FALSE, build |-> "none",
             pre_imagespecs |-> << >>,
             pre_disk |-> [exists |-> FALSE, lines |-> << >>]]]

\* No registry connection was started. conns: the connections started, by
\* number, each "connecting", "open", "closing" (a hangup callback has run)
\* or "closed" (the connection thread has ended); reg2bot: the BotWsMsg
\* queue; sender: the connection whose ws::Sender Context.reg_sender holds
\* (0: None); join_h: the connection whose thread reg_conn_join_h holds;
\* timers: the timeouts scheduled and not yet fired, as (connection, token);
\* echoes: the tokens of the _Echo messages queued to the event loop; wait:
\* the handler that waits in _reconnect_reg; ctl_server: the listener thread
\* ("none" until runloop spawns the threads); exit_code: what run_main exits
\* with; ev: the last _Echo the event loop handled (its token, whether a
\* _Ping was sent and whether the send failed), or the failed start.
NoNet ==
  [conns |-> << >>, reg2bot |-> << >>, sender |-> 0, join_h |-> 0,
   reg_echo_ctr |-> 0, timers |-> {}, echoes |-> << >>, wait |-> "none",
   ctl_server |-> "none", exit_code |-> 0,
   ev |-> [op |-> "none", token |-> 0, sent |-> FALSE, failed |-> FALSE]]

\* The threads that resolve images: the event loop (Registry2BotV0::_NewCiRun)
\* and the worker (WorkerLbMsg::CiTask).
Threads == {"event_loop", "worker"}

\* No thread resolves an image. file: the image manifest file (corrupt: it
\* does not parse); readers, writer: the guards of the shared lock that are
\* held; pc, local, want: where each thread is in its handler, the manifest
\* it loaded and the ImageSpec it looks up; built: the ImageSpecs built;
\* uses: the handlers begun.
NoMf ==
  [file |-> [corrupt |-> FALSE, imagespecs |-> << >>],
   readers |-> {}, writer |-> FALSE,
   pc |-> [t \in Threads |-> "idle"],
   local |-> [t \in Threads |-> << >>],
   want |-> [t \in Threads |-> builtin_default],
   built |-> {}, uses |-> 0]

\* VecDeque::new(): the events pushed by the registry's replies to
\* RegisterCiMachine and RegisterCiRepo, oldest first.
NoEvbuf == << >>

\* No GitCheckoutSpec was made. dir: "temp" while the TempDir exists,
\* "deleted" once it was dropped; strong: the holders of the Arc<TempDir>.
NoCheckout == [dir |-> "none", strong |-> 0]

\* The parts of the daemon a specification leaves alone.
RestNew ==
  /\ reconn = ReconnectNew
  /\ ipc = NoIpc
  /\ parse = NoParse
  /\ images = NoImages
  /\ net = NoNet
  /\ mf = NoMf
  /\ evbuf = NoEvbuf

\* Context::new: no sender, nothing sent, nothing confirmed.
\* hist[s]: "never" (no request of the sequence was ever sent), "none" (the
\* last retry sent no request), "sent", then "pos" or "neg" once the
\* registry's reply to the request sent was processed.
ContextNew ==
  /\ auth_maybe = FALSE
  /\ auth = FALSE
  /\ machine_reg_maybe = FALSE
  /\ machine_reg = FALSE
  /\ ctl_reply = NoReply
  /\ last = NoEvent
  /\ hist = [s \in Seqs |-> "never"]
  /\ loop = "new"
  /\ run = NoRun
  /\ workerlb = << >>
  /\ worker = WorkerIdle
  /\ loopback = << >>
  /\ checkout = NoCheckout
  /\ RestNew

-----------------------------------------------------------------------------
(* SpecCodec: one BotWsSender, called with every kind of argument.         *)

CodecMsgs == {Msg("_Ping", 0, 0), Msg("Auth", 7, 0), Msg("_DoneCiTask", 1, 1)}

AuthArgs == {NoAuth} \cup {ApiAuth("idGood", t) : t \in Tokens}

\* Byte positions (1-based) changed: the first and last byte of the
\* signature, of the length field, and the first byte of the payload.
TamperPos == {1, SigLen, SigLen + 1, HeaderLen, HeaderLen + 1}

\* Lengths a frame is cut to: below, at and above the signature length, up
\* to one byte short of the header.
CutLens == {0, 1, SigLen - 1, SigLen, SigLen + 1, HeaderLen - 1}

\* One byte of a frame changed.
Tamper(bin, pos) == [bin EXCEPT ![pos] = (bin[pos] + 1) % 256]

\* A frame the peer signs under key over a length field and a payload of
\* its own choosing.
PeerFrame(key, declared_len, payload) ==
  auth_sign(LE32(declared_len) \o payload, key) \o LE32(declared_len) \o payload

PeerPayloads == {<< >>, <<1>>, <<9>>, <<2>>}

InitCodec ==
  /\ reg_sender = BotWsSender(NoBuf)
  /\ wire = << >>
  /\ wire_msg = << >>
  /\ codec = NoCall
  /\ api_cfg = NoAuth
  /\ machine_cfg = FALSE
  /\ root_manifest = [auth_bit |-> FALSE, mach_reg_bit |-> FALSE]
  /\ disk_flags = [auth_bit |-> FALSE, mach_reg_bit |-> FALSE]
  /\ ContextNew

CodecSend ==
  \E a \in AuthArgs, m \in CodecMsgs, transport_ok \in BOOLEAN :
    \E r \in {send_auth(reg_sender.secret_token_buf, a, m, transport_ok)} :
    /\ Len(wire) < MaxCodecSends
    /\ reg_sender' = BotWsSender(r.buf)
    /\ wire' = IF r.sent THEN Append(wire, r.bin) ELSE wire
    /\ wire_msg' = IF r.sent THEN Append(wire_msg, m) ELSE wire_msg
    /\ codec' = [NoCall EXCEPT !.op = "send", !.a = a,
                   !.buf_before = reg_sender.secret_token_buf, !.msg_in = m,
                   !.bin = r.bin, !.err = r.err, !.buf = r.buf, !.sent = r.sent]
    /\ UNCHANGED <<restVars, authVars, runVars>>

\* recv_auth called on the sender with the bytes bin.
Recv(a, src, bin, orig) ==
  \E r \in {recv_auth(reg_sender.secret_token_buf, a, bin)} :
  /\ reg_sender' = BotWsSender(r.buf)
  /\ codec' = [NoCall EXCEPT !.op = "recv", !.a = a,
                 !.buf_before = reg_sender.secret_token_buf, !.src = src,
                 !.bin = bin, !.orig = orig, !.err = r.err, !.buf = r.buf,
                 !.msg = r.msg, !.verified = r.verified,
                 !.len_checked = r.len_checked, !.parsed = r.parsed]
  /\ UNCHANGED <<wire, wire_msg>>
  /\ UNCHANGED <<restVars, authVars, runVars>>

\* What can arrive: a frame of the wire as it was sent,
CodecRecvWire ==
  \E a \in AuthArgs, i \in 1 .. Len(wire) : Recv(a, "wire", wire[i], wire_msg[i])

\* with one byte changed,
CodecRecvTampered ==
  \E a \in AuthArgs, i \in 1 .. Len(wire), pos \in TamperPos :
    Recv(a, "tamper", Tamper(wire[i], pos), NoMsg)

\* cut short,
CodecRecvCut ==
  \E a \in AuthArgs, i \in 1 .. Len(wire), n \in CutLens :
    Recv(a, "cut", SubSeq(wire[i], 1, n), NoMsg)

\* some bytes that are no frame,
CodecRecvRunt ==
  \E a \in AuthArgs, n \in CutLens :
    Recv(a, "runt", [i \in 1 .. n |-> (11 * i) % 256], NoMsg)

\* or a frame of the peer's making.
CodecRecvPeer ==
  \E a \in AuthArgs, k \in {KeyA, KeyB}, p \in PeerPayloads, d \in {0, 1} :
    Recv(a, "peer", PeerFrame(k, Len(p) + d, p), NoMsg)

NextCodec ==
  \/ CodecSend
  \/ CodecRecvWire
  \/ CodecRecvTampered
  \/ CodecRecvCut
  \/ CodecRecvRunt
  \/ CodecRecvPeer

vars == <<codecVars, authVars, runVars, restVars>>

SpecCodec == InitCodec /\ [][NextCodec]_vars

-----------------------------------------------------------------------------
(* Claims on the signed channel codec (SpecCodec).                         *)

\* C7: decoding, under the token it was encoded with, the frame send_auth
\* produced for a message m returns m.
C7_RoundTrip ==
  (codec.op = "recv" /\ codec.src = "wire")
    => (codec.err = "ok" /\ codec.msg = codec.orig /\ codec.msg # NoMsg)

C7_Witness ==
  /\ codec.op = "recv" /\ codec.src = "wire"
  /\ codec.buf = KeyB
  /\ codec.msg = Msg("_DoneCiTask", 1, 1)

SigFails(c) ==
  ~auth_verify(Slice(c.bin, 0, SigLen), Slice(c.bin, SigLen, Len(c.bin)), c.buf)

\* C8: a frame of at least 36 bytes whose signature does not verify under
\* the connection's token fails with the verification error, whatever its
\* length field and payload; the length check and the deserialization
\* are reached only after the verification succeeded.
C8_VerifyBeforeParse ==
  /\ (codec.op = "recv" /\ Len(codec.bin) >= HeaderLen /\ codec.buf # NoBuf /\ SigFails(codec))
       => (codec.err = "API message verification failure"
           /\ codec.msg = NoMsg /\ ~codec.len_checked /\ ~codec.parsed)
  /\ (codec.op = "recv" /\ (codec.len_checked \/ codec.parsed))
       => (codec.verified /\ ~SigFails(codec))

\* a frame whose signature is wrong and whose length field is wrong too
C8_Witness ==
  /\ codec.op = "recv" /\ Len(codec.bin) >= HeaderLen
  /\ codec.err = "API message verification failure"
  /\ FromLE32(Slice(codec.bin, SigLen, HeaderLen)) # Len(codec.bin) - HeaderLen

\* C9 as claimed: every frame shorter than 36 bytes fails with the protocol
\* error, as a value, and is neither verified nor parsed.
C9_ShortFrameProtocolError ==
  (codec.op = "recv" /\ Len(codec.bin) < HeaderLen)
    => (codec.err = "API message protocol failure"
        /\ ~codec.verified /\ ~codec.len_checked /\ ~codec.parsed)

\* C9 amended: a frame shorter than 36 bytes fails, as a value, with the
\* protocol error when the connection has a token (cached, or resolved
\* from the ApiAuth supplied) and with the configuration error when it has
\* none; it is neither verified nor parsed.
C9_ShortFrameRejected ==
  (codec.op = "recv" /\ Len(codec.bin) < HeaderLen)
    => /\ codec.err = IF codec.buf # NoBuf
                        THEN "API message protocol failure"
                        ELSE "API authentication config is required"
       /\ codec.msg = NoMsg
       /\ ~codec.verified /\ ~codec.len_checked /\ ~codec.parsed

C9_Witness ==
  /\ codec.op = "recv" /\ Len(codec.bin) = HeaderLen - 1
  /\ codec.err = "API message protocol failure"

\* C10 as claimed: a call in which the caller supplies no ApiAuth transmits
\* no frame and returns no message.
C10_NoAuthNoTraffic ==
  (codec.op \in {"send", "recv"} /\ ~codec.a.present)
    => (~codec.sent /\ codec.msg = NoMsg)

\* C10 amended: a call in which the caller supplies no ApiAuth, on a
\* connection object that has cached no token yet, transmits no frame and
\* returns no message; it fails with the configuration error and caches
\* nothing.
C10_NoAuthNoTokenNoTraffic ==
  (codec.op \in {"send", "recv"} /\ ~codec.a.present /\ codec.buf_before = NoBuf)
    => /\ ~codec.sent /\ codec.msg = NoMsg
       /\ codec.err = "API authentication config is required"
       /\ reg_sender.secret_token_buf = NoBuf

\* a well-formed frame of the peer arrives and the caller has no ApiAuth
C10_Witness ==
  /\ codec.op = "recv" /\ ~codec.a.present /\ codec.buf_before = NoBuf
  /\ codec.src = "peer"
  /\ FromLE32(Slice(codec.bin, SigLen, HeaderLen)) = Len(codec.bin) - HeaderLen
  /\ ~codec.verified

-----------------------------------------------------------------------------
(* The Context operations behind the Auth and RegisterMachine sequences.   *)

\* The Context fields (and the shared root manifest with its file) that the
\* operations below read and write, as one value.
Ctx ==
  [api_cfg |-> api_cfg, machine_cfg |-> machine_cfg, reg_sender |-> reg_sender,
   wire |-> wire, wire_msg |-> wire_msg,
   auth_maybe |-> auth_maybe, auth |-> auth,
   machine_reg_maybe |-> machine_reg_maybe, machine_reg |-> machine_reg,
   root_manifest |-> root_manifest, disk_flags |-> disk_flags, hist |-> hist]

\* An Option<()> result with the Context it leaves.
Ret(c, some) == [c |-> c, some |-> some]

\* RootManifest::write_flag_bits: the flag byte of the file is rewritten
\* from both in-memory bits, unless opening or writing the file fails.
write_flag_bits(c, write_ok) ==
  IF write_ok THEN [c EXCEPT !.disk_flags = c.root_manifest] ELSE c

\* RootManifest::set_auth_bit / set_mach_reg_bit: the in-memory bit is
\* assigned first, then the file is written.
set_auth_bit(c, bit, write_ok) ==
  Ret(write_flag_bits([c EXCEPT !.root_manifest.auth_bit = bit], write_ok), write_ok)

set_mach_reg_bit(c, bit, write_ok) ==
  Ret(write_flag_bits([c EXCEPT !.root_manifest.mach_reg_bit = bit], write_ok), write_ok)

\* The BotWsSender call of a Context operation: the frame goes on the wire,
\* the sender keeps the token it resolved.
CtxSend(c, msg, transport_ok) ==
  The({ Ret([c EXCEPT !.reg_sender = BotWsSender(r.buf),
                      !.wire = IF r.sent THEN Append(c.wire, r.bin) ELSE c.wire,
                      !.wire_msg = IF r.sent THEN Append(c.wire_msg, msg) ELSE c.wire_msg],
            r.err = "ok") :
        r \in {send_auth(c.reg_sender.secret_token_buf, c.api_cfg, msg, transport_ok)} })

\* opened: whether the first message on the rendezvous queue is Open.
_reconnect_reg(c, opened) ==
  IF ~c.api_cfg.present THEN Ret(c, FALSE)
  ELSE IF ~opened THEN Ret(c, FALSE)
  ELSE Ret([c EXCEPT !.reg_sender = BotWsSender(NoBuf)], TRUE)

\* The history when a retry starts.
RetryPhase(phase) == IF phase = "never" THEN "never" ELSE "none"

ApiKeyByte(api_key) == base64_str_to_vec(ApiKeyLen, api_key)[1] % 256

_retry_api_auth(c, transport_ok) ==
  LET c0 == [c EXCEPT !.auth_maybe = FALSE, !.auth = FALSE,
                      !.hist["Auth"] = RetryPhase(c.hist["Auth"])] IN
  IF ~c0.api_cfg.present THEN Ret(c0, FALSE)
  ELSE IF ~c0.reg_sender.some THEN Ret(c0, FALSE)
  ELSE IF base64_str_to_vec(ApiKeyLen, c0.api_cfg.api_key) = NoBuf THEN Ret(c0, FALSE)
  ELSE The({ IF ~r.some THEN r
             ELSE Ret([r.c EXCEPT !.auth_maybe = TRUE, !.hist["Auth"] = "sent"], TRUE) :
             r \in {CtxSend(c0, Msg("Auth", ApiKeyByte(c0.api_cfg.api_key), 0),
                            transport_ok)} })

\* A retry that does not clear the flags first.
finish_register_machine_NoReset(c, transport_ok) ==
  LET c0 == [c EXCEPT !.hist["RegisterMachine"] = RetryPhase(c.hist["RegisterMachine"])] IN
  IF ~c0.api_cfg.present THEN Ret(c0, FALSE)
  ELSE IF ~c0.reg_sender.some THEN Ret(c0, FALSE)
  ELSE IF base64_str_to_vec(ApiKeyLen, c0.api_cfg.api_key) = NoBuf THEN Ret(c0, FALSE)
  ELSE The({ IF ~r.some THEN r
             ELSE Ret([r.c EXCEPT !.machine_reg_maybe = TRUE,
                                  !.hist["RegisterMachine"] = "sent"], TRUE) :
             r \in {CtxSend(c0, Msg("RegisterMachine", ApiKeyByte(c0.api_cfg.api_key), 0),
                            transport_ok)} })

prepare_register_machine(c) == c.machine_cfg

finish_register_machine(c, transport_ok) ==
  LET c0 == [c EXCEPT !.machine_reg_maybe = FALSE, !.machine_reg = FALSE,
                      !.hist["RegisterMachine"] = RetryPhase(c.hist["RegisterMachine"])] IN
  IF ~c0.api_cfg.present THEN Ret(c0, FALSE)
  ELSE IF ~c0.reg_sender.some THEN Ret(c0, FALSE)
  ELSE IF base64_str_to_vec(ApiKeyLen, c0.api_cfg.api_key) = NoBuf THEN Ret(c0, FALSE)
  ELSE The({ IF ~r.some THEN r
             ELSE Ret([r.c EXCEPT !.machine_reg_maybe = TRUE,
                                  !.hist["RegisterMachine"] = "sent"], TRUE) :
             r \in {CtxSend(c0, Msg("RegisterMachine", ApiKeyByte(c0.api_cfg.api_key), 0),
                            transport_ok)} })

\* already_open: Reconnect.open as _init reads it.
_init(c, force, already_open, opened, ok1, ok2) ==
  LET r0 == IF already_open THEN Ret(c, TRUE) ELSE _reconnect_reg(c, opened) IN
  IF ~r0.some THEN r0.c
  ELSE The({ IF ~r1.some THEN r1.c
             ELSE IF (force \/ ~r1.c.machine_reg) /\ r1.c.root_manifest.mach_reg_bit
               THEN IF ~prepare_register_machine(r1.c) THEN r1.c
                    ELSE finish_register_machine(r1.c, ok2).c
               ELSE r1.c :
             r1 \in {IF (force \/ ~r0.c.auth) /\ r0.c.root_manifest.auth_bit
                       THEN _retry_api_auth(r0.c, ok1) ELSE Ret(r0.c, TRUE)} })

\* A poll that takes the request sent for the confirmation received.
Ack_DoneOnSent(maybe, confirmed) ==
  CASE maybe                  -> "Done"
    [] ~maybe /\ ~confirmed   -> "Pending"
    [] OTHER                  -> "Stopped"

\* The match of the two poll requests on (_maybe, confirmed).
Ack(maybe, confirmed) ==
  CASE maybe /\ confirmed                                  -> "Done"
    [] (~maybe /\ ~confirmed) \/ (maybe /\ ~confirmed)     -> "Pending"
    [] OTHER                                               -> "Stopped"

\* A handler that persists the bit and leaves the confirmed flag alone.
OnAuthSome_NeverConfirms(c, w1, w2) ==
  IF ~c.auth_maybe
    THEN set_auth_bit([c EXCEPT !.auth = FALSE], FALSE, w1).c
  ELSE IF ~c.root_manifest.auth_bit
    THEN LET r == set_auth_bit(c, TRUE, w1) IN
         IF ~r.some THEN set_auth_bit([r.c EXCEPT !.auth = FALSE], FALSE, w2).c
         ELSE r.c
  ELSE c

\* Registry2BotV0::Auth(Some(_)): w1, w2 are the outcomes of the writes of
\* the root manifest file, in the order they are attempted.
OnAuthSome(c, w1, w2) ==
  IF ~c.auth_maybe
    THEN set_auth_bit([c EXCEPT !.auth = FALSE], FALSE, w1).c
  ELSE IF ~c.root_manifest.auth_bit
    THEN LET r == set_auth_bit(c, TRUE, w1) IN
         IF ~r.some THEN set_auth_bit([r.c EXCEPT !.auth = FALSE], FALSE, w2).c
         ELSE [r.c EXCEPT !.auth = TRUE]
  ELSE [c EXCEPT !.auth = TRUE]

\* A handler that clears the _maybe flag and the bit only.
OnAuthNone_KeepsConfirmed(c, w1) ==
  set_auth_bit([c EXCEPT !.auth_maybe = FALSE], FALSE, w1).c

\* Registry2BotV0::Auth(None)
OnAuthNone(c, w1) ==
  set_auth_bit([c EXCEPT !.auth_maybe = FALSE, !.auth = FALSE], FALSE, w1).c

\* A handler that leaves the bit as the failed write set it.
OnRegisterMachineSome_TrustsWrite(c, w1, w2) ==
  IF ~c.machine_reg_maybe
    THEN set_mach_reg_bit([c EXCEPT !.machine_reg = FALSE], FALSE, w1).c
  ELSE IF ~c.root_manifest.mach_reg_bit
    THEN LET r == set_mach_reg_bit(c, TRUE, w1) IN
         IF ~r.some THEN [r.c EXCEPT !.machine_reg = FALSE]
         ELSE [r.c EXCEPT !.machine_reg = TRUE]
  ELSE [c EXCEPT !.machine_reg = TRUE]

\* Registry2BotV0::RegisterMachine(Some(_))
OnRegisterMachineSome(c, w1, w2) ==
  IF ~c.machine_reg_maybe
    THEN set_mach_reg_bit([c EXCEPT !.machine_reg = FALSE], FALSE, w1).c
  ELSE IF ~c.root_manifest.mach_reg_bit
    THEN LET r == set_mach_reg_bit(c, TRUE, w1) IN
         IF ~r.some THEN set_mach_reg_bit([r.c EXCEPT !.machine_reg = FALSE], FALSE, w2).c
         ELSE [r.c EXCEPT !.machine_reg = TRUE]
  ELSE [c EXCEPT !.machine_reg = TRUE]

\* A handler that clears the _maybe flag and the bit only.
OnRegisterMachineNone_KeepsConfirmed(c, w1) ==
  set_mach_reg_bit([c EXCEPT !.machine_reg_maybe = FALSE], FALSE, w1).c

\* Registry2BotV0::RegisterMachine(None)
OnRegisterMachineNone(c, w1) ==
  set_mach_reg_bit([c EXCEPT !.machine_reg_maybe = FALSE, !.machine_reg = FALSE],
                   FALSE, w1).c

-----------------------------------------------------------------------------
(* SpecAuth: the event loop on IPC requests, registry replies and the      *)
(* watchdog's reconnect requests.                                          *)

ApiCfgs == {NoAuth, ApiAuth("idGood", "tokA"), ApiAuth("idShort", "tokA")}

\* The key the registry signs with: its copy of the account's secret token.
RegistryKey == KeyA

RegistryReplies ==
  {Msg("AuthReply", 1, 0), Msg("AuthReply", 0, 0),
   Msg("RegisterMachineReply", 1, 0), Msg("RegisterMachineReply", 0, 0),
   Msg("_Pong", 0, 0)}

\* The frames the registry sends for its replies.
RegistryFrames == [msg \in RegistryReplies |-> EncodeFrame(RegistryKey, msg)]

\* What arrives on the connection: a reply of the registry, or a frame whose
\* signature does not verify.
InboundFrames ==
  {RegistryFrames[msg] : msg \in RegistryReplies}
    \cup {Tamper(RegistryFrames[Msg("AuthReply", 1, 0)], 1)}

\* The Context an operation leaves becomes the state.
SetCtx(ctx) ==
  \E c \in {ctx} :
       /\ api_cfg' = c.api_cfg
       /\ machine_cfg' = c.machine_cfg
       /\ reg_sender' = c.reg_sender
       /\ wire' = c.wire
       /\ wire_msg' = c.wire_msg
       /\ auth_maybe' = c.auth_maybe
       /\ auth' = c.auth
       /\ machine_reg_maybe' = c.machine_reg_maybe
       /\ machine_reg' = c.machine_reg
       /\ root_manifest' = c.root_manifest
       /\ disk_flags' = c.disk_flags
       /\ hist' = c.hist

\* Whether ws::Sender::send accepts a frame: it may always fail; it
\* succeeds only while the connection's queue has room.
TransportOutcomes == IF Len(wire) < MaxAuthSends THEN BOOLEAN ELSE {FALSE}

InitAuth ==
  /\ reg_sender = NoSender
  /\ wire = << >>
  /\ wire_msg = << >>
  /\ codec = NoCall
  /\ api_cfg \in ApiCfgs
  /\ machine_cfg \in BOOLEAN
  /\ root_manifest \in [auth_bit : BOOLEAN, mach_reg_bit : BOOLEAN]
  /\ disk_flags = root_manifest
  /\ ContextNew

\* runloop(): Context::new(..)?._init(false)?.runloop()
Boot ==
  /\ loop = "new"
  /\ \E already_open \in {FALSE}, opened \in BOOLEAN, ok1, ok2 \in TransportOutcomes :
       SetCtx(_init(Ctx, FALSE, already_open, opened, ok1, ok2))
  /\ loop' = "select"
  /\ ctl_reply' = NoReply
  /\ last' = NoEvent
  /\ UNCHANGED <<restVars, codec, runVars>>

\* LoopbackMsg::_Echo2: the watchdog asks for a reconnect.
Echo2 ==
  /\ loop = "select"
  /\ \E already_open \in BOOLEAN, ok1, ok2 \in TransportOutcomes :
       \E opened \in IF already_open THEN {TRUE} ELSE BOOLEAN :
         SetCtx(_init(Ctx, TRUE, already_open, opened, ok1, ok2))
  /\ last' = NoEvent
  /\ ctl_reply' = NoReply
  /\ UNCHANGED <<restVars, codec, loop, runVars>>

\* chan.send(&send_msg)?; chan.hup(): the reply is written to the client;
\* a failed write is returned from runloop by the ? operator.
IpcReply(reply, client_ok) ==
  /\ ctl_reply' = IF client_ok THEN reply ELSE NoReply
  /\ loop' = IF client_ok THEN "select" ELSE "exited"

IpcRetryApiAuth ==
  /\ loop = "select"
  /\ \E opened, client_ok \in BOOLEAN, transport_ok \in TransportOutcomes :
       \E r \in {_retry_api_auth(_reconnect_reg(Ctx, opened).c, transport_ok)} :
         /\ SetCtx(r.c)
         /\ IpcReply([op |-> "_RetryApiAuth", ack |-> "none", some |-> r.some], client_ok)
  /\ last' = NoEvent
  /\ UNCHANGED <<restVars, codec, runVars>>

IpcAckRetryApiAuth ==
  /\ loop = "select"
  /\ \E client_ok \in BOOLEAN :
       IpcReply([op |-> "_AckRetryApiAuth", ack |-> Ack(auth_maybe, auth), some |-> TRUE],
                client_ok)
  /\ last' = NoEvent
  /\ SetCtx(Ctx)
  /\ UNCHANGED <<restVars, codec, runVars>>

IpcRegisterMachine ==
  /\ loop = "select"
  /\ \E client_ok \in BOOLEAN :
       IpcReply([op |-> "RegisterMachine", ack |-> "none",
                 some |-> prepare_register_machine(Ctx)], client_ok)
  /\ last' = NoEvent
  /\ SetCtx(Ctx)
  /\ UNCHANGED <<restVars, codec, runVars>>

IpcConfirmRegisterMachine ==
  /\ loop = "select"
  /\ \E client_ok \in BOOLEAN, transport_ok \in TransportOutcomes :
       \E r \in {finish_register_machine(Ctx, transport_ok)} :
         /\ SetCtx(r.c)
         /\ IpcReply([op |-> "ConfirmRegisterMachine", ack |-> "none", some |-> r.some],
                     client_ok)
  /\ last' = NoEvent
  /\ UNCHANGED <<restVars, codec, runVars>>

IpcAckRegisterMachine ==
  /\ loop = "select"
  /\ \E client_ok \in BOOLEAN :
       IpcReply([op |-> "AckRegisterMachine", ack |-> Ack(machine_reg_maybe, machine_reg),
                 some |-> TRUE], client_ok)
  /\ last' = NoEvent
  /\ SetCtx(Ctx)
  /\ UNCHANGED <<restVars, codec, runVars>>

\* Ctl2Bot::ReloadConfig: both configs are read again; each may be absent.
IpcReloadConfig ==
  /\ loop = "select"
  /\ \E new_api \in ApiCfgs, new_machine \in BOOLEAN, client_ok \in BOOLEAN :
       /\ SetCtx([Ctx EXCEPT !.api_cfg = new_api, !.machine_cfg = new_machine])
       /\ IpcReply([op |-> "ReloadConfig", ack |-> "none", some |-> TRUE], client_ok)
  /\ last' = NoEvent
  /\ UNCHANGED <<restVars, codec, runVars>>

PhaseAfter(phase, ev) ==
  CASE ev = "Pos" /\ phase \in {"sent", "pos"} -> "pos"
    [] ev = "Neg" /\ phase \in {"sent", "pos"} -> "neg"
    [] OTHER                                   -> phase

\* The event recorded for a reply of sequence s processed in Context c:
\* fresh when it answers the request last sent (a confirmation may arrive
\* again); the confirmed flag before it is recorded for a rejection.
ReplyEvent(c, s, ev, write_failed) ==
  [ev |-> ev, seq |-> s, fresh |-> c.hist[s] \in {"sent", "pos"},
   confirmed_before |-> ev = "Neg" /\ (IF s = "Auth" THEN c.auth ELSE c.machine_reg),
   write_failed |-> write_failed]

\* The match on the decoded Registry2BotV0 message.
Dispatch(c, msg, w1, w2) ==
  CASE msg = Msg("AuthReply", 1, 0) ->
         /\ SetCtx([OnAuthSome(c, w1, w2) EXCEPT
                      !.hist["Auth"] = PhaseAfter(c.hist["Auth"], "Pos")])
         /\ last' = ReplyEvent(c, "Auth", "Pos",
                               (~c.auth_maybe \/ ~c.root_manifest.auth_bit) /\ ~w1)
    [] msg = Msg("AuthReply", 0, 0) ->
         /\ SetCtx([OnAuthNone(c, w1) EXCEPT
                      !.hist["Auth"] = PhaseAfter(c.hist["Auth"], "Neg")])
         /\ last' = ReplyEvent(c, "Auth", "Neg", ~w1)
    [] msg = Msg("RegisterMachineReply", 1, 0) ->
         /\ SetCtx([OnRegisterMachineSome(c, w1, w2) EXCEPT
                      !.hist["RegisterMachine"] =
                         PhaseAfter(c.hist["RegisterMachine"], "Pos")])
         /\ last' = ReplyEvent(c, "RegisterMachine", "Pos",
                               (~c.machine_reg_maybe \/ ~c.root_manifest.mach_reg_bit) /\ ~w1)
    [] msg = Msg("RegisterMachineReply", 0, 0) ->
         /\ SetCtx([OnRegisterMachineNone(c, w1) EXCEPT
                      !.hist["RegisterMachine"] =
                         PhaseAfter(c.hist["RegisterMachine"], "Neg")])
         /\ last' = ReplyEvent(c, "RegisterMachine", "Neg", ~w1)
    [] OTHER ->
         /\ SetCtx(c)
         /\ last' = NoEvent

\* BotWsMsg::Bin(bin): with no sender the frame is skipped; api_cfg is
\* unwrapped; the frame is decoded and a frame that fails is skipped.
RegistryBin ==
  /\ loop = "select"
  /\ \E bin \in InboundFrames :
       IF ~reg_sender.some
         THEN /\ SetCtx(Ctx)
              /\ last' = NoEvent
              /\ loop' = loop
       ELSE IF ~api_cfg.present
         THEN /\ SetCtx(Ctx)
              /\ last' = NoEvent
              /\ loop' = "panicked"
       ELSE \E r \in {recv_auth(reg_sender.secret_token_buf, api_cfg, bin)} :
              LET c == [Ctx EXCEPT !.reg_sender = BotWsSender(r.buf)] IN
              /\ loop' = loop
              /\ IF r.err # "ok"
                   THEN /\ SetCtx(c)
                        /\ last' = NoEvent
                   ELSE \E w1 \in BOOLEAN :
                          \E w2 \in IF w1 THEN {TRUE} ELSE BOOLEAN :
                            Dispatch(c, r.msg, w1, w2)
  /\ ctl_reply' = NoReply
  /\ UNCHANGED <<restVars, codec, runVars>>

\* The connection thread writes the oldest queued frame to the socket.
WsFlush ==
  /\ wire # << >>
  /\ wire' = Tail(wire)
  /\ wire_msg' = Tail(wire_msg)
  /\ UNCHANGED <<restVars, reg_sender, codec, authVars, runVars>>

NextAuth ==
  \/ Boot
  \/ WsFlush
  \/ Echo2
  \/ IpcRetryApiAuth
  \/ IpcAckRetryApiAuth
  \/ IpcRegisterMachine
  \/ IpcConfirmRegisterMachine
  \/ IpcAckRegisterMachine
  \/ IpcReloadConfig
  \/ RegistryBin

SpecAuth == InitAuth /\ [][NextAuth]_vars

-----------------------------------------------------------------------------
(* The Auth and RegisterMachine sequences, checked under SpecAuth.          *)

\* The flags of sequence s in the current state.
Maybe(s)     == IF s = "Auth" THEN auth_maybe ELSE machine_reg_maybe
Confirmed(s) == IF s = "Auth" THEN auth ELSE machine_reg
MemBit(s)    == IF s = "Auth" THEN root_manifest.auth_bit ELSE root_manifest.mach_reg_bit
DiskBit(s)   == IF s = "Auth" THEN disk_flags.auth_bit ELSE disk_flags.mach_reg_bit

\* The reply just written is the reply to a poll of sequence s.
Polled(s) ==
  ctl_reply.op = (IF s = "Auth" THEN "_AckRetryApiAuth" ELSE "AckRegisterMachine")

\* C2 as claimed: once a request of the sequence has been sent, a positive
\* confirmation that is processed leaves the confirmed flag true and the
\* persisted bit true.
C2_PositiveConfirms ==
  \A s \in Seqs :
    (last.ev = "Pos" /\ last.seq = s /\ hist[s] # "never")
      => (Confirmed(s) /\ MemBit(s))

\* C2 amended: a positive confirmation processed while the request last sent
\* is still outstanding (the _maybe flag is true), and whose write of the
\* root manifest file does not fail, leaves the confirmed flag true and the
\* bit true in memory and in the file.
C2_PositiveConfirmsOutstanding ==
  \A s \in Seqs :
    (last.ev = "Pos" /\ last.seq = s /\ last.fresh /\ ~last.write_failed)
      => (Confirmed(s) /\ MemBit(s) /\ DiskBit(s) /\ Maybe(s))

\* a first confirmation of a registration: the file held no bit before
C2_Witness ==
  /\ last.ev = "Pos" /\ last.seq = "RegisterMachine"
  /\ last.fresh /\ ~last.write_failed
  /\ machine_reg /\ disk_flags.mach_reg_bit
  /\ ~disk_flags.auth_bit /\ ~auth

C4_StoppedAfterRejection ==
  \A s \in Seqs :
    (Polled(s) /\ hist[s] = "neg") => ctl_reply.ack = "Stopped"

\* a poll after the rejection of the request sent
C4_Witness ==
  /\ Polled("Auth") /\ hist["Auth"] = "neg" /\ ctl_reply.ack = "Pending"

\* C5: a poll replies Done exactly when the _maybe flag and the confirmed
\* flag are both true; it does not reply Done when the last retry sent no
\* request, and it replies Pending when no request was ever sent.
C5_DoneIffConfirmed ==
  \A s \in Seqs :
    Polled(s)
      => /\ (ctl_reply.ack = "Done") <=> (Maybe(s) /\ Confirmed(s))
         /\ hist[s] \in {"never", "none"} => ctl_reply.ack # "Done"
         /\ hist[s] = "never" => ctl_reply.ack = "Pending"

\* a poll of a confirmed registration, and nothing of Auth was ever sent
C5_Witness ==
  /\ Polled("RegisterMachine") /\ ctl_reply.ack = "Done"
  /\ hist["RegisterMachine"] = "pos" /\ hist["Auth"] = "never"

\* C6 as claimed: once the registry's reply to the request, positive or
\* negative, has been processed, every later poll returns Done or Stopped.
C6_TerminalAfterReply ==
  \A s \in Seqs :
    (Polled(s) /\ hist[s] \in {"pos", "neg"}) => ctl_reply.ack \in {"Done", "Stopped"}

\* a poll after the rejection of a registration
C6_Witness ==
  /\ Polled("RegisterMachine") /\ hist["RegisterMachine"] = "neg"
  /\ ctl_reply.ack = "Pending" /\ ~machine_reg_maybe

-----------------------------------------------------------------------------
(* SpecRun: one CI run, from the registry's _NewCiRun through the worker   *)
(* thread and the loopback queue to the frames sent.                       *)

\* LoopbackMsg::{StartCiTask, AppendCiTaskData, DoneCiTask}
LoopbackMsg(tag, task_nr, part_nr, failed) ==
  [tag |-> tag, task_nr |-> task_nr, part_nr |-> part_nr, failed |-> failed]

\* The Bot2RegistryV0 message the event loop builds from a LoopbackMsg.
Bot2Registry(lb) ==
  CASE lb.tag = "StartCiTask"      -> Msg("_StartCiTask", lb.task_nr, 0)
    [] lb.tag = "AppendCiTaskData" -> Msg("_AppendCiTaskData", lb.task_nr, lb.part_nr)
    [] OTHER                       -> Msg("_DoneCiTask", lb.task_nr, IF lb.failed THEN 1 ELSE 0)

\* The dispatch loop that sends the tasks in reverse.
CiTasks_Reversed(task_count) ==
  [i \in 1 .. task_count |-> task_count - i + 1]

\* for task_idx in 0 .. task_count: task_nr = task_idx + 1, in this order.
CiTasks(task_count) ==
  [i \in 1 .. task_count |-> (i - 1) + 1]

\* What the handler of _NewCiRun can fail on before it accepts the run.
RunPreconditions ==
  {"ok", "checkout_spec", "manifest_load", "image_lookup", "checkout", "taskspec"}

\* A Dir that deletes its directory whenever a holder drops it.
Dir_drop_Owned(d) ==
  IF d.dir = "none" THEN d
  ELSE [d EXCEPT !.dir = "deleted", !.strong = d.strong - 1]

\* GitCheckoutSpec::with_remote_url: Dir::Temp(Arc::new(tempdir()?)).
with_remote_url == [dir |-> "temp", strong |-> 1]

\* checkout.clone(): the derived Clone of Dir::Temp clones the Arc.
Dir_clone(d) == [d EXCEPT !.strong = d.strong + 1]

\* A holder drops its GitCheckoutSpec: the TempDir is dropped, and the
\* directory deleted, with the last Arc.
Dir_drop(d) ==
  IF d.dir = "none" THEN d
  ELSE IF d.strong = 1 THEN [dir |-> "deleted", strong |-> 0]
  ELSE [d EXCEPT !.strong = d.strong - 1]

RECURSIVE Dir_clones(_, _)
\* One clone for each WorkerLbMsg::CiTask of the dispatch loop.
Dir_clones(d, n) == IF n = 0 THEN d ELSE Dir_clones(Dir_clone(d), n - 1)

\* The checkout when the _NewCiRun arm ends: none was made if the arm was
\* left before with_remote_url or if with_remote_url failed; else the
\* handler's GitCheckoutSpec is dropped at the `continue` or at the end of
\* the arm, after one clone went into each task message.
NewCiRunCheckout(made, tasks) ==
  IF ~made THEN NoCheckout
  ELSE Dir_drop(Dir_clones(with_remote_url, Len(tasks)))

\* The _NewCiRun arm: every failure before the Accept, and a failed send of
\* the Accept, skip the rest of the arm. The frame sent is the Accept with
\* task_count and failed_early: false (field b of the message: 0).
NewCiRun(c, pre, task_count, transport_ok) ==
  IF ~c.api_cfg.present \/ ~c.reg_sender.some \/ pre # "ok"
    THEN [c |-> c, state |-> "skipped", tasks |-> << >>]
  ELSE LET r == CtxSend(c, Msg("_NewCiRun", task_count, 0), transport_ok) IN
       IF ~r.some THEN [c |-> r.c, state |-> "accept_failed", tasks |-> << >>]
       ELSE [c |-> r.c, state |-> "dispatched", tasks |-> CiTasks(task_count)]

\* Whether ws::Sender::send accepts a frame. Where the state of the
\* connection is followed (Reconnect.conn), the open connection accepts the
\* frame and the sender of a connection that has ended fails; elsewhere
\* sends fail at most MaxSendFailures times.
RunTransport ==
  IF reconn.conn = "none" /\ ~reconn.handled
    THEN IF run.dropped < MaxSendFailures THEN BOOLEAN ELSE {TRUE}
    ELSE {reconn.open}

\* The daemon is up: _init has connected, nothing was sent on the connection.
ContextUp ==
  /\ reg_sender = BotWsSender(NoBuf)
  /\ wire = << >>
  /\ wire_msg = << >>
  /\ codec = NoCall
  /\ api_cfg = ApiAuth("idGood", "tokA")
  /\ machine_cfg = FALSE
  /\ root_manifest = [auth_bit |-> FALSE, mach_reg_bit |-> FALSE]
  /\ disk_flags = root_manifest
  /\ auth_maybe = FALSE
  /\ auth = FALSE
  /\ machine_reg_maybe = FALSE
  /\ machine_reg = FALSE
  /\ ctl_reply = NoReply
  /\ last = NoEvent
  /\ hist = [s \in Seqs |-> "never"]
  /\ loop = "select"
  /\ run = NoRun
  /\ workerlb = << >>
  /\ worker = WorkerIdle
  /\ loopback = << >>
  /\ checkout = NoCheckout

InitRun ==
  /\ ContextUp
  /\ RestNew

\* BotWsMsg::Bin(bin) carrying Registry2BotV0::_NewCiRun.
RegistryNewCiRun ==
  /\ loop = "select"
  /\ run.state = "none"
  /\ reg_sender.some
  /\ \E pre \in RunPreconditions, task_count \in 0 .. MaxTasks, transport_ok \in RunTransport :
       \E d \in {recv_auth(reg_sender.secret_token_buf, api_cfg,
                           EncodeFrame(RegistryKey, Msg("_NewCiRunRequest", 0, 0)))} :
         IF d.err # "ok"
           THEN /\ SetCtx([Ctx EXCEPT !.reg_sender = BotWsSender(d.buf)])
                /\ UNCHANGED <<run, workerlb, checkout>>
           ELSE \E r \in {NewCiRun([Ctx EXCEPT !.reg_sender = BotWsSender(d.buf)],
                                   pre, task_count, transport_ok)} :
                  /\ SetCtx(r.c)
                  /\ run' = [run EXCEPT !.state = r.state,
                                        !.pre = pre,
                                        !.parsed = (pre = "ok"),
                                        !.task_count = IF pre = "ok" THEN task_count ELSE 0,
                                        !.dropped = IF r.state = "accept_failed" THEN 1 ELSE 0]
                  /\ workerlb' = workerlb \o r.tasks
                  /\ checkout' = NewCiRunCheckout(api_cfg.present /\ pre # "checkout_spec",
                                                  r.tasks)
  /\ UNCHANGED <<restVars, codec, ctl_reply, last, loop, worker, loopback>>

\* How far handle_workerlb_ci_task gets before the container runs.
TaskOutcomes ==
  {"no_image_candidate", "manifest_load", "image_lookup", "script_file",
   "spawn_panic", "spawned"}

\* A worker that reports every task as not failed.
TaskFailed_Never(outcome) == FALSE

\* The failed flag of DoneCiTask: false for DockerRunStatus::Success only.
TaskFailed(outcome) == outcome # "Success"

\* A worker side that writes its reports to the connection by itself.
loopback_send_Direct(msgs) ==
  /\ loopback' = loopback
  /\ wire' = wire \o [i \in DOMAIN msgs |-> EncodeFrame(KeyA, Bot2Registry(msgs[i]))]
  /\ wire_msg' = wire_msg \o [i \in DOMAIN msgs |-> Bot2Registry(msgs[i])]

\* loopback_s.send(..) of the worker thread and of the monitor's consumer:
\* the messages are queued to the event loop, in this order; these threads
\* hold no BotWsSender.
loopback_send(msgs) ==
  /\ loopback' = loopback \o msgs
  /\ wire' = wire
  /\ wire_msg' = wire_msg

\* The history of the worker when task task_nr has ended with outcome: the
\* task may become the watched one if none is and it ended in a failure of
\* the image or of the container.
Watch(r, task_nr, outcome) ==
  {[r EXCEPT !.taken = r.taken + 1]}
    \cup {[r EXCEPT !.taken = r.taken + 1,
                    !.watched = [task_nr |-> task_nr, how |-> outcome]] :
            x \in IF r.watched.task_nr = 0
                       /\ outcome \in {"no_image_candidate", "manifest_load",
                                       "image_lookup", "Failure"}
                    THEN {1} ELSE {}}

\* The worker takes a task: StartCiTask; a failure to get the image or to
\* write the script is DoneCiTask(failed); a `docker run` that cannot be
\* spawned panics the thread; else the container and its monitor run.
WorkerStart ==
  /\ worker.state = "idle"
  /\ workerlb # << >>
  /\ \E outcome \in TaskOutcomes :
       LET task_nr == Head(workerlb)
           start   == LoopbackMsg("StartCiTask", task_nr, 0, FALSE)
       IN
       /\ workerlb' = Tail(workerlb)
       /\ CASE outcome = "spawned" ->
                 /\ loopback_send(<<start>>)
                 /\ worker' = [state |-> "running", task_nr |-> task_nr,
                               part_nr |-> 1, occ |-> FALSE]
            [] outcome = "spawn_panic" ->
                 /\ loopback_send(<<start>>)
                 /\ worker' = [WorkerIdle EXCEPT !.state = "dead"]
            [] OTHER ->
                 /\ loopback_send(<<start, LoopbackMsg("DoneCiTask", task_nr, 0,
                                                       TaskFailed(outcome))>>)
                 /\ worker' = WorkerIdle
       /\ run' \in IF outcome \in {"spawned", "spawn_panic"} THEN {run}
                    ELSE Watch(run, task_nr, outcome)
       /\ checkout' = IF outcome = "spawned" THEN checkout ELSE Dir_drop(checkout)
  /\ UNCHANGED <<restVars, reg_sender, codec, authVars>>

\* A monitor whose part_nr stays where it is.
NextPart_Same(part_nr) == part_nr

\* part_nr += 1
NextPart(part_nr) == part_nr + 1

\* The monitor thread reads a line of the console: the buffer is handed to
\* the consumer when the line fills it (occ_sz >= buf_sz).
MonitorLine ==
  /\ worker.state = "running"
  /\ run.lines < MaxLines
  /\ \E fills \in BOOLEAN :
       IF fills
         THEN /\ loopback_send(<<LoopbackMsg("AppendCiTaskData", worker.task_nr,
                                             worker.part_nr, FALSE)>>)
              /\ worker' = [worker EXCEPT !.occ = FALSE, !.part_nr = NextPart(worker.part_nr)]
         ELSE /\ loopback_send(<< >>)
              /\ worker' = [worker EXCEPT !.occ = TRUE]
  /\ run' = [run EXCEPT !.lines = run.lines + 1]
  /\ UNCHANGED <<restVars, reg_sender, codec, authVars, workerlb, checkout>>

\* End of the console: the monitor hands over what is left in its buffer and
\* is joined; then the worker sends DoneCiTask with the container's status.
WorkerDone ==
  /\ worker.state = "running"
  /\ \E status \in {"Success", "Failure", "wait_failed"} :
       /\ loopback_send((IF worker.occ
                           THEN <<LoopbackMsg("AppendCiTaskData", worker.task_nr,
                                              worker.part_nr, FALSE)>>
                           ELSE << >>)
                        \o <<LoopbackMsg("DoneCiTask", worker.task_nr, 0, TaskFailed(status))>>)
       /\ run' \in Watch(run, worker.task_nr, status)
  /\ worker' = WorkerIdle
  /\ checkout' = Dir_drop(checkout)
  /\ UNCHANGED <<restVars, reg_sender, codec, authVars, workerlb>>

\* A loopback arm that puts a report back on the queue when its send fails.
LoopbackSend_Requeue ==
  IF ~reg_sender.some
    THEN /\ loopback' = Tail(loopback)
         /\ SetCtx(Ctx)
         /\ run' = run
         /\ UNCHANGED <<restVars, codec, ctl_reply, last, loop, workerlb, worker, checkout>>
    ELSE \E transport_ok \in RunTransport :
           \E r \in {CtxSend(Ctx, Bot2Registry(Head(loopback)), transport_ok)} :
             /\ SetCtx(r.c)
             /\ loopback' = IF r.some THEN Tail(loopback)
                            ELSE Append(Tail(loopback), Head(loopback))
             /\ run' = [run EXCEPT !.dropped = IF r.some THEN run.dropped
                                                        ELSE run.dropped + 1]
             /\ UNCHANGED <<restVars, codec, ctl_reply, last, loop, workerlb, worker, checkout>>

\* The three loopback arms of the event loop: without a sender, or when
\* send_auth fails, the message is gone.
LoopbackSend ==
  /\ loopback' = Tail(loopback)
  /\ IF ~reg_sender.some
       THEN /\ SetCtx(Ctx)
            /\ run' = run
       ELSE \E transport_ok \in RunTransport :
              \E r \in {CtxSend(Ctx, Bot2Registry(Head(loopback)), transport_ok)} :
                /\ SetCtx(r.c)
                /\ run' = [run EXCEPT !.dropped = IF r.some THEN run.dropped
                                                           ELSE run.dropped + 1]
  /\ UNCHANGED <<restVars, codec, ctl_reply, last, loop, workerlb, worker, checkout>>

\* LoopbackMsg::StartCiTask
LoopbackStartCiTask ==
  /\ loop = "select"
  /\ loopback # << >>
  /\ Head(loopback).tag = "StartCiTask"
  /\ LoopbackSend

\* LoopbackMsg::AppendCiTaskData
LoopbackAppendCiTaskData ==
  /\ loop = "select"
  /\ loopback # << >>
  /\ Head(loopback).tag = "AppendCiTaskData"
  /\ LoopbackSend

\* LoopbackMsg::DoneCiTask
LoopbackDoneCiTask ==
  /\ loop = "select"
  /\ loopback # << >>
  /\ Head(loopback).tag = "DoneCiTask"
  /\ LoopbackSend

NextRun ==
  \/ RegistryNewCiRun
  \/ WorkerStart
  \/ MonitorLine
  \/ WorkerDone
  \/ LoopbackStartCiTask
  \/ LoopbackAppendCiTaskData
  \/ LoopbackDoneCiTask

SpecRun == InitRun /\ [][NextRun]_vars

-----------------------------------------------------------------------------
(* The frames of a run, checked under SpecRun.                             *)

\* The place of a frame in the sequence of a run: the Accept, then for each
\* task its _StartCiTask, its parts by part_nr, its _DoneCiTask.
FramePos(m) ==
  CASE m.tag = "_NewCiRun"         -> 0
    [] m.tag = "_StartCiTask"      -> m.a * (MaxLines + 3)
    [] m.tag = "_AppendCiTaskData" -> m.a * (MaxLines + 3) + m.b
    [] OTHER                       -> m.a * (MaxLines + 3) + MaxLines + 2

\* The frames sent so far that report on task task_nr.
TaskFrames(task_nr) ==
  SelectSeq(wire_msg, LAMBDA m : m.tag # "_NewCiRun" /\ m.a = task_nr)

\* One _StartCiTask, parts 1, 2, .. in order, one _DoneCiTask.
TaskComplete(frames) ==
  /\ Len(frames) >= 2
  /\ frames[1].tag = "_StartCiTask"
  /\ frames[Len(frames)].tag = "_DoneCiTask"
  /\ \A i \in 2 .. Len(frames) - 1 :
       frames[i].tag = "_AppendCiTaskData" /\ frames[i].b = i - 1

\* The Accept, then the complete frames of task 1, of task 2, ..
RunComplete ==
  /\ wire_msg # << >>
  /\ wire_msg[1] = Msg("_NewCiRun", run.task_count, 0)
  /\ \A i \in 2 .. Len(wire_msg) : wire_msg[i].tag # "_NewCiRun"
  /\ \A task_nr \in 1 .. run.task_count : TaskComplete(TaskFrames(task_nr))
  /\ \A i, j \in DOMAIN wire_msg : i < j => FramePos(wire_msg[i]) < FramePos(wire_msg[j])

\* Nothing of the run is left to do: the queues are empty and the worker
\* waits for a task (or its thread is gone).
RunSettled ==
  /\ run.state # "none"
  /\ loopback = << >>
  /\ worker.state = "dead" \/ (worker.state = "idle" /\ workerlb = << >>)

C14_FailedEarlyReported ==
  (run.pre \in {"checkout", "taskspec"} /\ RunSettled)
    => /\ workerlb = << >> /\ worker.state = "idle" /\ run.task_count = 0
       /\ \E i \in DOMAIN wire_msg : wire_msg[i].tag = "_NewCiRun" /\ wire_msg[i].b = 1

\* the checkout of a run has failed: the handler is done, no task was
\* dispatched and nothing was sent
C14_Witness ==
  /\ run.pre = "checkout" /\ run.state = "skipped"
  /\ workerlb = << >> /\ worker.state = "idle" /\ loopback = << >>
  /\ wire = << >>

\* The _DoneCiTask frames sent for task task_nr.
DoneFrames(task_nr) ==
  SelectSeq(wire_msg, LAMBDA m : m.tag = "_DoneCiTask" /\ m.a = task_nr)

-----------------------------------------------------------------------------
(* SpecWatchdog: the registry connection, its hangups, the watchdog thread *)
(* and the reconnects of the event loop.                                   *)

\* The watchdog handles at most this many hangups without an open.
MaxBackoffCount == 10

\* _WsHup messages queued to the watchdog, and _Echo2 messages queued to
\* the event loop, at a time.
MaxHups == 2

\* Reconnect's delays as Context::new sets them, in half seconds:
\* 7.5 s, 15 s, 1800 - 300 s, 1800 + 300 s.
min_backoff_delay_lo == 15
min_backoff_delay_hi == 30
max_backoff_delay_lo == 3000
max_backoff_delay_hi == 4200

Min(a, b) == IF a <= b THEN a ELSE b

\* A backoff that doubles without the maximum.
Backoff_Uncapped(backoff_count, min_delay, max_delay, delay) ==
  IF backoff_count = 0 THEN min_delay ELSE 2 * delay

\* match reconn.backoff_count { 0 => min, _ => max.min(2.0 * delay) }
Backoff(backoff_count, min_delay, max_delay, delay) ==
  IF backoff_count = 0 THEN min_delay ELSE Min(max_delay, 2 * delay)

\* BotWsConn::on_open on the Reconnect record.
on_open(r) ==
  [r EXCEPT !.open = TRUE, !.backoff_count = 0, !.conn = "open",
            !.opened_since = TRUE, !.reopened = r.handled]

\* BotWsConn::on_shutdown / on_close / on_error on the Reconnect record and
\* the watchdog's queue; conn: "closing" after the first of them, "closed"
\* after a second one.
on_close(r) ==
  [r EXCEPT !.open = FALSE, !.watchdog_q = r.watchdog_q + 1,
            !.conn = IF r.conn = "closing" THEN "closed" ELSE "closing"]

\* The daemon is up and connected: on_open has run once.
InitWatchdog ==
  /\ ContextUp
  /\ reconn = [on_open(ReconnectNew) EXCEPT !.opened_since = FALSE]
  /\ ipc = NoIpc
  /\ parse = NoParse
  /\ images = NoImages
  /\ net = NoNet
  /\ mf = NoMf
  /\ evbuf = NoEvbuf

\* The connection's thread: on_shutdown, on_close or on_error.
WsHangup ==
  /\ reconn.conn \in {"open", "closing"}
  /\ reconn.watchdog_q < MaxHups
  /\ reconn' = on_close(reconn)
  /\ UNCHANGED <<codecVars, authVars, runVars, ipc, parse, images, net, mf, evbuf>>

\* The watchdog's arm for _WsHup on the Reconnect record: skipped when the
\* connection is open, else the delay bounds are set and the thread sleeps.
watchdog_hup(r) ==
  IF r.open
    THEN [r EXCEPT !.watchdog_q = r.watchdog_q - 1, !.skipped = TRUE]
    ELSE [r EXCEPT
            !.watchdog_q = r.watchdog_q - 1,
            !.backoff_delay_lo = Backoff(r.backoff_count, min_backoff_delay_lo,
                                         max_backoff_delay_lo, r.backoff_delay_lo),
            !.backoff_delay_hi = Backoff(r.backoff_count, min_backoff_delay_hi,
                                         max_backoff_delay_hi, r.backoff_delay_hi),
            !.backoff_count = r.backoff_count + 1,
            !.wd = "sleep",
            !.handled = TRUE,
            !.opened_since = FALSE]

\* The watchdog thread takes a _WsHup.
WatchdogHup ==
  /\ reconn.wd = "recv"
  /\ reconn.watchdog_q > 0
  /\ reconn.open \/ (reconn.backoff_count < MaxBackoffCount /\ reconn.echo2 < MaxHups)
  /\ reconn' = watchdog_hup(reconn)
  /\ UNCHANGED <<codecVars, authVars, runVars, ipc, parse, images, net, mf, evbuf>>

\* A watchdog that asks for a reconnect whenever it wakes up.
WatchdogWake_Always ==
  /\ reconn.wd = "sleep"
  /\ reconn' = [reconn EXCEPT !.wd = "recv", !.echo2 = reconn.echo2 + 1,
                              !.woke_open = @ \/ reconn.open]
  /\ UNCHANGED <<codecVars, authVars, runVars, ipc, parse, images, net, mf, evbuf>>

\* After the sleep: _Echo2 to the event loop unless the connection is open
\* by now.
watchdog_wake(r) ==
  [r EXCEPT !.wd = "recv",
            !.echo2 = IF r.open THEN r.echo2 ELSE r.echo2 + 1,
            !.woke_open = r.woke_open \/ r.open]

\* The watchdog wakes up.
WatchdogWake ==
  /\ reconn.wd = "sleep"
  /\ reconn' = watchdog_wake(reconn)
  /\ UNCHANGED <<codecVars, authVars, runVars, ipc, parse, images, net, mf, evbuf>>

\* LoopbackMsg::_Echo2: _init(true). Unless the connection is open,
\* _reconnect_reg starts a connection and waits for its first message:
\* Open (on_open has run), or Hup / Error (on_close / on_error has run).
WatchdogEcho2 ==
  /\ loop = "select"
  /\ reconn.echo2 > 0
  /\ ~reconn.open => reconn.watchdog_q < MaxHups
  /\ \E opened \in IF reconn.open THEN {TRUE} ELSE BOOLEAN, ok1, ok2 \in TransportOutcomes :
       /\ SetCtx(_init(Ctx, TRUE, reconn.open, opened, ok1, ok2))
       /\ \E r \in {[reconn EXCEPT !.echo2 = reconn.echo2 - 1]} :
            reconn' = IF reconn.open THEN r
                      ELSE IF opened THEN on_open(r)
                      ELSE on_close([r EXCEPT !.conn = "connecting"])
  /\ last' = NoEvent
  /\ ctl_reply' = NoReply
  /\ UNCHANGED <<codec, loop, runVars, ipc, parse, images, net, mf, evbuf>>

NextWatchdog ==
  \/ WsHangup
  \/ WatchdogHup
  \/ WatchdogWake
  \/ WatchdogEcho2

SpecWatchdog == InitWatchdog /\ [][NextWatchdog]_vars

\* C11: each time the watchdog handles a hangup the delay bounds it sets are
\* at most (1500 s, 2100 s); they are the minimum (7.5 s, 15 s) when on_open
\* ran since the last handled hangup, and else not below the bounds of the
\* last handled hangup.
C11_BackoffBounds ==
  [][reconn'.backoff_count = reconn.backoff_count + 1
       => /\ reconn'.backoff_delay_lo <= max_backoff_delay_lo
          /\ reconn'.backoff_delay_hi <= max_backoff_delay_hi
          /\ reconn.opened_since
               => /\ reconn'.backoff_delay_lo = min_backoff_delay_lo
                  /\ reconn'.backoff_delay_hi = min_backoff_delay_hi
          /\ (reconn.handled /\ ~reconn.opened_since)
               => /\ reconn'.backoff_delay_lo >= reconn.backoff_delay_lo
                  /\ reconn'.backoff_delay_hi >= reconn.backoff_delay_hi]_vars

\* the bounds have reached the maximum after a connection that was opened
\* again after a handled hangup
C11_Witness ==
  /\ reconn.reopened
  /\ reconn.wd = "sleep"
  /\ reconn.backoff_delay_lo = max_backoff_delay_lo
  /\ reconn.backoff_delay_hi = max_backoff_delay_hi

\* C25: a step in which the watchdog takes up a hangup while Reconnect is
\* open changes no backoff state, does not put the watchdog to sleep and
\* requests no reconnect; one taken up while Reconnect is closed increments
\* the attempt counter and puts the watchdog to sleep; the step in which the
\* watchdog wakes up requests a reconnect exactly if Reconnect is closed then.
C25_WatchdogCoalesces ==
  [][ /\ (reconn.wd = "recv" /\ reconn'.watchdog_q = reconn.watchdog_q - 1 /\ reconn.open)
         => /\ reconn'.backoff_count = reconn.backoff_count
            /\ reconn'.backoff_delay_lo = reconn.backoff_delay_lo
            /\ reconn'.backoff_delay_hi = reconn.backoff_delay_hi
            /\ reconn'.open
            /\ reconn'.wd = "recv"
            /\ reconn'.echo2 = reconn.echo2
      /\ (reconn.wd = "recv" /\ reconn'.watchdog_q = reconn.watchdog_q - 1 /\ ~reconn.open)
         => /\ reconn'.backoff_count = reconn.backoff_count + 1
            /\ reconn'.wd = "sleep"
            /\ reconn'.echo2 = reconn.echo2
      /\ (reconn.wd = "sleep" /\ reconn'.wd = "recv")
         => reconn'.echo2 = IF reconn.open THEN reconn.echo2 ELSE reconn.echo2 + 1 ]_vars

\* The watchdog has skipped a hangup of an open connection, and has woken up
\* from a backoff sleep to a connection that had opened meanwhile.
C25_Witness ==
  /\ reconn.skipped /\ reconn.woke_open
  /\ reconn.open /\ reconn.wd = "recv" /\ reconn.echo2 = 0

-----------------------------------------------------------------------------
(* SpecIpc: the IPC connections, from the listener thread's accept to the  *)
(* event loop's reply.                                                     *)

\* Connections queued to the event loop at a time.
MaxIpcQueue == 1

\* Connections the event loop handles.
MaxIpcServed == 2

\* The largest msg_len CtlChannel::recv and CtlChannel::send take.
MaxPacket == 4092

Ctl2Bot ==
  {"_QueryApiAuthConfig", "_DumpApiAuthConfig", "_QueryApiAuthState", "_RetryApiAuth",
   "_AckRetryApiAuth", "_UndoApiAuth", "_AckUndoApiAuth", "EchoApiId", "EchoMachineId",
   "PrintConfig", "RegisterCiGroupMachine", "AckRegisterCiGroupMachine",
   "RegisterCiGroupRepo", "AckRegisterCiGroupRepo", "RegisterCiMachine",
   "AckRegisterCiMachine", "RegisterCiRepo", "AckRegisterCiRepo", "RegisterMachine",
   "ConfirmRegisterMachine", "AckRegisterMachine", "ReloadConfig", "UnregisterCiMachine",
   "UnregisterCiRepo", "UnregisterMachine"}

\* What a client writes before it waits for the reply: hdr (the four bytes
\* of msg_len were written), msg_len, have (the bytes written after them),
\* variant (what bincode decodes from msg_len bytes; "garbage" when it
\* decodes nothing).
ClientRequest(hdr, msg_len, have, variant) ==
  [hdr |-> hdr, msg_len |-> msg_len, have |-> have, variant |-> variant]

ClientRequests ==
  {ClientRequest(FALSE, 0, 0, "garbage"),
   ClientRequest(TRUE, MaxPacket + 1, MaxPacket + 1, "ReloadConfig"),
   ClientRequest(TRUE, MaxPacket, 4, "ReloadConfig"),
   ClientRequest(TRUE, 4, 4, "garbage")}
    \cup {ClientRequest(TRUE, 4, 4, v) : v \in Ctl2Bot}

\* CtlChannel::recv: the variant received, "none" for Err(_).
CtlRecv(req) ==
  IF ~req.hdr THEN "none"
  ELSE IF req.msg_len > MaxPacket THEN "none"
  ELSE IF req.have < req.msg_len THEN "none"
  ELSE IF req.variant \notin Ctl2Bot THEN "none"
  ELSE req.variant

\* Context::register_ci_machine, Context::register_ci_repo
register_ci(c, tag, transport_ok) ==
  IF ~c.api_cfg.present THEN Ret(c, FALSE)
  ELSE IF ~c.reg_sender.some THEN Ret(c, FALSE)
  ELSE IF base64_str_to_vec(ApiKeyLen, c.api_cfg.api_key) = NoBuf THEN Ret(c, FALSE)
  ELSE CtxSend(c, Msg(tag, ApiKeyByte(c.api_cfg.api_key), 0), transport_ok)

\* The match on the request received: the Context the arm leaves, and
\* whether the arm yields a reply ("reply"), panics ("panic": unimplemented!(),
\* or the unwrap of a File::create that failed) or skips the rest of the
\* iteration ("unhandled": the arm `_`, continue). flag is the outcome the arm
\* depends on: the connection opened, the file created, the machine config
\* found. The event buffer the arms AckRegisterCiMachine and AckRegisterCiRepo
\* pop is modelled under SpecEvbuf.
Ctl2BotArm(c, v, flag, transport_ok, new_api) ==
  CASE v = "_RetryApiAuth" ->
         [c |-> _retry_api_auth(_reconnect_reg(c, flag).c, transport_ok).c, arm |-> "reply"]
    [] v = "ConfirmRegisterMachine" ->
         [c |-> finish_register_machine(c, transport_ok).c, arm |-> "reply"]
    [] v = "RegisterCiMachine" ->
         [c |-> register_ci(c, "RegisterCiMachine", transport_ok).c, arm |-> "reply"]
    [] v = "RegisterCiRepo" ->
         [c |-> register_ci(c, "RegisterCiRepo", transport_ok).c, arm |-> "reply"]
    [] v = "ReloadConfig" ->
         [c |-> [c EXCEPT !.api_cfg = new_api, !.machine_cfg = flag], arm |-> "reply"]
    [] v = "_DumpApiAuthConfig" ->
         [c |-> c, arm |-> IF flag THEN "reply" ELSE "panic"]
    [] v \in {"RegisterCiGroupMachine", "RegisterCiGroupRepo"} ->
         [c |-> c, arm |-> "panic"]
    [] v \in {"_AckUndoApiAuth", "AckRegisterCiGroupMachine", "AckRegisterCiGroupRepo"} ->
         [c |-> c, arm |-> "unhandled"]
    [] OTHER ->
         [c |-> c, arm |-> "reply"]

InitIpc ==
  /\ ContextUp
  /\ RestNew

\* The listener thread: accept, and the connection is queued to the event
\* loop; the client has written req.
IpcAccept ==
  /\ Len(ipc.ctlchan) < MaxIpcQueue
  /\ ipc.served + Len(ipc.ctlchan) < MaxIpcServed
  /\ \E req \in ClientRequests :
       ipc' = [ipc EXCEPT !.ctlchan = Append(ipc.ctlchan, req)]
  /\ UNCHANGED <<codecVars, authVars, runVars, reconn, parse, images, net, mf, evbuf>>

\* recv(ctlchan_r): chan.recv(), the match on the request, chan.send(&send_msg)?
\* and chan.hup(). client_ok: the write of the reply succeeds (the client is
\* still there). The connection is closed when chan is dropped: at continue,
\* in hup, when runloop returns, and when the process dies of a panic.
IpcServe ==
  /\ loop = "select"
  /\ ipc.ctlchan # << >>
  /\ \E v \in {CtlRecv(Head(ipc.ctlchan))} :
       \E flag \in IF v \in {"_RetryApiAuth", "ReloadConfig", "_DumpApiAuthConfig"}
                     THEN BOOLEAN ELSE {FALSE},
          transport_ok \in IF v \in {"_RetryApiAuth", "ConfirmRegisterMachine",
                                     "RegisterCiMachine", "RegisterCiRepo"}
                             THEN TransportOutcomes ELSE {FALSE},
          new_api \in IF v = "ReloadConfig" THEN ApiCfgs ELSE {NoAuth},
          client_ok \in BOOLEAN :
         \E r \in {IF v = "none" THEN [c |-> Ctx, arm |-> "recv_failed"]
                   ELSE Ctl2BotArm(Ctx, v, flag, transport_ok, new_api)} :
           /\ SetCtx(r.c)
           /\ loop' = CASE r.arm = "panic"                 -> "panicked"
                        [] r.arm = "reply" /\ ~client_ok   -> "exited"
                        [] OTHER                           -> "select"
           /\ ipc' = [ipc EXCEPT
                        !.ctlchan = Tail(ipc.ctlchan),
                        !.received = v,
                        !.arm = IF r.arm = "reply" /\ ~client_ok THEN "write_failed"
                                ELSE r.arm,
                        !.replies = IF r.arm = "reply" /\ client_ok THEN 1 ELSE 0,
                        !.closed = TRUE,
                        !.served = ipc.served + 1]
           /\ ctl_reply' = NoReply
           /\ last' = NoEvent
  /\ UNCHANGED <<codec, runVars, reconn, parse, images, net, mf, evbuf>>

NextIpc ==
  \/ IpcAccept
  \/ IpcServe

SpecIpc == InitIpc /\ [][NextIpc]_vars

\* C12 as claimed: a connection from which a request was received, and whose
\* client takes the reply, is closed with exactly one reply written, whatever
\* the variant of the request.
C12_OneReplyThenClose ==
  (ipc.received # "none" /\ ipc.closed /\ ipc.arm # "write_failed") => ipc.replies = 1

\* the request _AckUndoApiAuth was received and the connection closed with
\* no reply; the event loop goes on
C12_Witness ==
  /\ ipc.received = "_AckUndoApiAuth" /\ ipc.closed /\ ipc.replies = 0
  /\ loop = "select"

\* C13 as claimed: after a failed or oversized receive, an undecodable
\* request, an unsupported variant or a failed write of the reply, the event
\* loop is still running.
C13_IpcFailureNotFatal ==
  (ipc.arm \in {"recv_failed", "unhandled", "write_failed"}
     \/ ipc.received \in {"RegisterCiGroupMachine", "RegisterCiGroupRepo"})
    => loop = "select"

\* the write of a reply failed and runloop has returned the error
C13_Witness ==
  /\ ipc.arm = "write_failed" /\ ipc.received = "ReloadConfig"
  /\ loop = "exited"

-----------------------------------------------------------------------------
(* SpecParse: _taskspecs, the parser of the taskspec stream.               *)
(* A line is the sequence of its lexemes: the marker "#-guppy:", ":", " "  *)
(* (a whitespace character), "==", ">=", and words.                        *)

\* Task blocks in a stream.
MaxBlocks == 2

\* str::splitn(2, ":")
splitn_colon(s) ==
  LET at == {i \in DOMAIN s : s[i] = ":"} IN
  IF at = {} THEN <<s>>
  ELSE LET i == CHOOSE i \in at : \A j \in at : i <= j IN
       <<SubSeq(s, 1, i - 1), SubSeq(s, i + 1, Len(s))>>

\* str::split_whitespace
split_whitespace(s) ==
  LET RECURSIVE F(_, _, _)
      F(i, cur, acc) ==
        IF i > Len(s) THEN (IF cur = << >> THEN acc ELSE Append(acc, cur))
        ELSE IF s[i] = " "
          THEN F(i + 1, << >>, IF cur = << >> THEN acc ELSE Append(acc, cur))
        ELSE F(i + 1, Append(cur, s[i]), acc)
  IN F(1, << >>, << >>)

\* A name that ends at the next whitespace.
NameArg_FirstToken(args) == split_whitespace(args)[2]

\* The loop over the characters of the arguments of v0.task:name: what
\* follows the first run of whitespace. It is reached with two tokens or
\* more in args.
NameArg(args) ==
  LET i == CHOOSE i \in DOMAIN args :
             args[i] = " " /\ \A k \in 1 .. i - 1 : args[k] # " "
      j == CHOOSE j \in i + 1 .. Len(args) :
             args[j] # " " /\ \A k \in i + 1 .. j - 1 : args[k] = " "
  IN SubSeq(args, j, Len(args))

\* str::parse::<bool>: <<ok, value>>
parse_bool(tok) ==
  IF tok = <<"true">> THEN <<TRUE, TRUE>>
  ELSE IF tok = <<"false">> THEN <<TRUE, FALSE>>
  ELSE <<FALSE, FALSE>>

\* The version pattern of require_distro and require_cuda: <<ver, code_str>>
version_pat(tok) ==
  IF Head(tok) = "==" THEN <<"Exact", Tail(tok)>>
  ELSE IF Head(tok) = ">=" THEN <<"AtLeast", Tail(tok)>>
  ELSE <<"Exact", tok>>

\* match (distro_id, code_str): "None" for an unsupported distro version.
DistroCodenameV0(distro_id, code_str) ==
  LET table ==
        {<<"alpine", "3.8", "Alpine3_8">>, <<"alpine", "3.9", "Alpine3_9">>,
         <<"centos", "6", "Centos6">>, <<"centos", "7", "Centos7">>,
         <<"debian", "7", "DebianWheezy">>, <<"debian", "wheezy", "DebianWheezy">>,
         <<"debian", "8", "DebianJessie">>, <<"debian", "jessie", "DebianJessie">>,
         <<"debian", "9", "DebianStretch">>, <<"debian", "stretch", "DebianStretch">>,
         <<"debian", "10", "DebianBuster">>, <<"debian", "buster", "DebianBuster">>,
         <<"ubuntu", "14.04", "UbuntuTrusty">>, <<"ubuntu", "trusty", "UbuntuTrusty">>,
         <<"ubuntu", "16.04", "UbuntuXenial">>, <<"ubuntu", "xenial", "UbuntuXenial">>,
         <<"ubuntu", "18.04", "UbuntuBionic">>, <<"ubuntu", "bionic", "UbuntuBionic">>}
      hit == {e \in table : e[1] = distro_id /\ <<e[2]>> = code_str}
  IN IF hit = {} THEN "None" ELSE (CHOOSE e \in hit : TRUE)[3]

\* TaskSpecBuilder::default(); None is "None" or << >>.
TaskSpecBuilder ==
  [name |-> << >>, toolchain |-> "None", require_docker |-> FALSE,
   require_nvidia_docker |-> FALSE, require_distro |-> << >>, require_cuda |-> << >>,
   allow_errors |-> FALSE, sh |-> << >>]

\* TaskSpecBuilder::into_task: the fields as they are, Err without require_distro.
into_task(b) == [ok |-> b.require_distro # << >>, task |-> b]

\* The arms of the modifier directives once a builder is open: the builder
\* they leave, ok FALSE for Err.
task_modifier(b, args) ==
  LET task_toks == split_whitespace(args)
      d == task_toks[1]
      Err == [ok |-> FALSE, b |-> b]
      Ok(nb) == [ok |-> TRUE, b |-> nb]
  IN
  IF Len(task_toks) <= (IF d = <<"require_distro">> THEN 2 ELSE 1) THEN Err
  ELSE CASE d = <<"name">> -> Ok([b EXCEPT !.name = NameArg(args)])
         [] d = <<"toolchain">> ->
              IF task_toks[2] \in {<<"default">>, <<"python2">>, <<"python3">>,
                                   <<"rust_nightly">>}
                THEN Ok([b EXCEPT !.toolchain = task_toks[2][1]]) ELSE Err
         [] d = <<"require_docker">> ->
              IF parse_bool(task_toks[2])[1]
                THEN Ok([b EXCEPT !.require_docker = parse_bool(task_toks[2])[2]]) ELSE Err
         [] d = <<"require_nvidia_docker">> ->
              IF parse_bool(task_toks[2])[1]
                THEN Ok([b EXCEPT !.require_nvidia_docker = parse_bool(task_toks[2])[2]])
                ELSE Err
         [] d = <<"require_distro">> ->
              IF task_toks[2] \notin {<<"alpine">>, <<"centos">>, <<"debian">>, <<"ubuntu">>}
                THEN Err
              ELSE LET v == version_pat(task_toks[3])
                       code == DistroCodenameV0(task_toks[2][1], v[2]) IN
                   IF code = "None" THEN Err
                   ELSE Ok([b EXCEPT !.require_distro = <<v[1], code>>])
         [] d = <<"require_cuda">> ->
              IF task_toks[2] = <<"*">> THEN Ok([b EXCEPT !.require_cuda = <<"Any", "None">>])
              ELSE LET v == version_pat(task_toks[2]) IN
                   IF v[2] \in {<<"6.5">>, <<"7.0">>, <<"7.5">>, <<"8.0">>, <<"9.0">>,
                                <<"9.1">>, <<"9.2">>, <<"10.0">>, <<"10.1">>}
                     THEN Ok([b EXCEPT !.require_cuda = <<v[1], v[2][1]>>]) ELSE Err
         [] d = <<"require_gpu_arch">> ->
              IF task_toks[2] = <<"*">> THEN Ok(b) ELSE Err
         [] OTHER ->
              IF parse_bool(task_toks[2])[1]
                THEN Ok([b EXCEPT !.allow_errors = parse_bool(task_toks[2])[2]]) ELSE Err

TaskModifiers ==
  {<<"name">>, <<"toolchain">>, <<"require_docker">>, <<"require_nvidia_docker">>,
   <<"require_distro">>, <<"require_cuda">>, <<"require_gpu_arch">>, <<"allow_errors">>}

\* The body of the loop over the lines, on the parser's locals: open
\* (task_builder.is_some()), builder, tasks; res becomes "Err" at a return
\* Err(..) and "panic" at a panic. Of v0.mutable_cache only the checks of
\* its arguments are modelled; the files it fetches are not.
task_line(st, line) ==
  LET Err == [st EXCEPT !.res = "Err"]
      Panic == [st EXCEPT !.res = "panic"]
  IN
  IF line = << >> \/ line[1] # "#-guppy:"
    THEN IF ~st.open THEN Err ELSE [st EXCEPT !.builder.sh = Append(@, line)]
  ELSE
    LET directive_toks == splitn_colon(Tail(line)) IN
    CASE directive_toks[1] \in {<<"v0.pre_run">>, <<"v0.run_prelude">>, <<"v0.post_run">>} -> st
      [] directive_toks[1] = <<"task">> -> Panic
      [] directive_toks[1] = <<"v0.mutable_cache">> ->
           IF Len(directive_toks) = 1 THEN Panic
           ELSE LET cache_toks == split_whitespace(directive_toks[2]) IN
                IF cache_toks = << >> THEN Panic
                ELSE IF cache_toks[1] # <<"append">> \/ Len(cache_toks) <= 2 THEN Err
                ELSE IF cache_toks[3] = <<"fetch_only">> /\ Len(cache_toks) <= 3 THEN Err
                ELSE st
      [] directive_toks[1] = <<"v0.task">> ->
           IF Len(directive_toks) = 1 THEN Panic
           ELSE LET task_toks == split_whitespace(directive_toks[2]) IN
                IF task_toks = << >> THEN Panic
                ELSE CASE task_toks[1] = <<"begin">> ->
                            IF st.open THEN Err
                            ELSE [st EXCEPT !.open = TRUE, !.builder = TaskSpecBuilder]
                       [] task_toks[1] = <<"end">> ->
                            IF ~st.open \/ ~into_task(st.builder).ok THEN Err
                            ELSE [st EXCEPT !.open = FALSE,
                                            !.tasks = Append(@, into_task(st.builder).task)]
                       [] task_toks[1] \in TaskModifiers ->
                            IF ~st.open \/ ~task_modifier(st.builder, directive_toks[2]).ok
                              THEN Err
                            ELSE [st EXCEPT !.builder =
                                              task_modifier(st.builder, directive_toks[2]).b]
                       [] OTHER -> Err
      [] OTHER -> Err

\* for line in cursor.lines() { .. }: the locals after the loop, or at the
\* line the parser stopped at.
task_lines(lines) ==
  LET RECURSIVE F(_, _)
      F(st, i) == IF i > Len(lines) \/ st.res # "Ok" THEN st
                  ELSE F(task_line(st, lines[i]), i + 1)
  IN F([open |-> FALSE, builder |-> TaskSpecBuilder, tasks |-> << >>, res |-> "Ok"], 1)

\* A parser that returns the tasks it has completed along with the error.
_taskspecs_Partial(lines) ==
  LET st == task_lines(lines) IN
  [res |-> IF st.res = "Ok" /\ st.open THEN "Err" ELSE st.res, tasks |-> st.tasks]

\* _taskspecs: Ok((raw_out, tasks)) or Err(..), which carries no task; a
\* builder still open after the last line is Err.
_taskspecs(lines) ==
  LET st == task_lines(lines) IN
  IF st.res = "Ok" /\ ~st.open THEN [res |-> "Ok", tasks |-> st.tasks]
  ELSE [res |-> IF st.res = "Ok" THEN "Err" ELSE st.res, tasks |-> << >>]

\* The line of a v0.task directive.
TaskDirective(args) == <<"#-guppy:", "v0.task", ":">> \o args

\* Well-formed task blocks, each with the task its directives describe:
\* the optional name, the optional require_docker, the arguments of
\* require_distro with the version and codename they stand for, the shell
\* lines. joined: the distro and its version are written as one argument.
TaskBlocks ==
  {[name |-> <<"X">>, docker |-> <<"true">>, distro |-> <<"debian", "==", "9">>,
    joined |-> j, ver |-> "Exact", code |-> "DebianStretch", sh |-> << >>] :
     j \in BOOLEAN}
  \cup
  {[name |-> <<"X", " ", "Y">>, docker |-> <<"false">>,
    distro |-> <<"ubuntu", ">=", "16.04">>, joined |-> FALSE, ver |-> "AtLeast",
    code |-> "UbuntuXenial", sh |-> << <<"make">>, <<"make", " ", "test">> >>],
   [name |-> << >>, docker |-> << >>, distro |-> <<"alpine", "3.8">>, joined |-> FALSE,
    ver |-> "Exact", code |-> "Alpine3_8",
    sh |-> << <<"echo", " ", "#-guppy:", "v0.task", ":", "end">> >>]}

\* The lines of a block: begin, name, require_docker, the shell lines,
\* require_distro, end.
BlockLines(b) ==
  <<TaskDirective(<<"begin">>)>>
    \o (IF b.name = << >> THEN << >> ELSE <<TaskDirective(<<"name", " ">> \o b.name)>>)
    \o (IF b.docker = << >> THEN << >>
        ELSE <<TaskDirective(<<"require_docker", " ">> \o b.docker)>>)
    \o b.sh
    \o <<TaskDirective(<<"require_distro", " ", Head(b.distro)>>
                        \o (IF b.joined THEN << >> ELSE <<" ">>) \o Tail(b.distro))>>
    \o <<TaskDirective(<<"end">>)>>

\* The lines of a sequence of blocks.
Lines(blocks) ==
  LET RECURSIVE F(_)
      F(i) == IF i > Len(blocks) THEN << >> ELSE BlockLines(blocks[i]) \o F(i + 1)
  IN F(1)

\* The offending lines: a shell line, an end or a modifier directive while
\* no builder is open, a begin while one is open, a builder left open at
\* the end of the stream.
Faults ==
  {[kind |-> "sh", lines |-> << <<"make">> >>],
   [kind |-> "end", lines |-> <<TaskDirective(<<"end">>)>>],
   [kind |-> "begin", lines |-> <<TaskDirective(<<"begin">>),
                                  TaskDirective(<<"name", " ", "X">>),
                                  TaskDirective(<<"begin">>)>>],
   [kind |-> "eof", lines |-> <<TaskDirective(<<"begin">>), <<"make">>>>]}
  \cup {[kind |-> "modifier", lines |-> <<TaskDirective(m \o <<" ", "true">>)>>] :
          m \in TaskModifiers}

\* The streams: up to MaxBlocks blocks, then possibly an offence and, unless
\* the offence is the end of the stream, possibly one more block.
InitParse ==
  /\ ContextUp
  /\ reconn = ReconnectNew
  /\ ipc = NoIpc
  /\ images = NoImages
  /\ net = NoNet
  /\ mf = NoMf
  /\ evbuf = NoEvbuf
  /\ \E n \in 0 .. MaxBlocks :
       \E blocks \in [1 .. n -> TaskBlocks], fault \in Faults \cup {NoParse.fault} :
         \E tail \in IF fault.kind \in {"none", "eof"} THEN {<< >>}
                     ELSE {<< >>, BlockLines(CHOOSE b \in TaskBlocks : b.sh # << >>)} :
           parse = [NoParse EXCEPT !.blocks = blocks, !.fault = fault, !.tail = tail]

\* _run_spec hands the output of the taskspec container to _taskspecs.
ParseStream ==
  /\ parse.result.res = "none"
  /\ parse' = [parse EXCEPT
                 !.result = _taskspecs(Lines(parse.blocks) \o parse.fault.lines \o parse.tail)]
  /\ UNCHANGED <<codecVars, authVars, runVars, reconn, ipc, images, net, mf, evbuf>>

NextParse == ParseStream

SpecParse == InitParse /\ [][NextParse]_vars

\* C17: the parse of a stream of task blocks followed by a shell line, an end
\* or a modifier directive while no builder is open, by a begin while one is
\* open, or ending with a builder open, returns an error and no task,
\* whatever follows and however many blocks came before.
C17_AllOrNothing ==
  (parse.result.res # "none" /\ parse.fault.kind # "none")
    => parse.result = [res |-> "Err", tasks |-> << >>]

\* two well-formed blocks, then a begin while a builder is open: an error
C17_Witness ==
  /\ parse.result.res = "Err" /\ parse.fault.kind = "begin"
  /\ Len(parse.blocks) = 2 /\ \A i \in 1 .. 2 : ~parse.blocks[i].joined

\* The task a block describes.
BlockTask(b) ==
  [TaskSpecBuilder EXCEPT !.name = b.name, !.require_docker = (b.docker = <<"true">>),
                          !.require_distro = <<b.ver, b.code>>, !.sh = b.sh]

\* C18 as claimed: the parse of k well-formed blocks returns the k tasks the
\* blocks describe, in order; the block of the example with the argument
\* debian==9 yields the task X that requires docker and Debian stretch.
C18_BlocksToTasks ==
  (parse.result.res # "none" /\ parse.fault.kind = "none")
    => parse.result = [res |-> "Ok",
                       tasks |-> [i \in DOMAIN parse.blocks |-> BlockTask(parse.blocks[i])]]

\* C18 amended: the same for blocks whose require_distro has the distro and
\* the version as two arguments (debian ==9); a block whose require_distro
\* has the one argument debian==9 makes the parse fail.
C18_BlocksToTasksTwoArgs ==
  (parse.result.res # "none" /\ parse.fault.kind = "none")
    => IF \E i \in DOMAIN parse.blocks : parse.blocks[i].joined
         THEN parse.result = [res |-> "Err", tasks |-> << >>]
         ELSE parse.result =
                [res |-> "Ok",
                 tasks |-> [i \in DOMAIN parse.blocks |-> BlockTask(parse.blocks[i])]]

\* two blocks parsed into two tasks, the first with a name of two words and
\* two shell lines, the second the task of the example
C18_Witness ==
  /\ parse.result.res = "Ok" /\ Len(parse.result.tasks) = 2
  /\ parse.result.tasks[1].name = <<"X", " ", "Y">>
  /\ Len(parse.result.tasks[1].sh) = 2
  /\ parse.result.tasks[2] =
       [TaskSpecBuilder EXCEPT !.name = <<"X">>, !.require_docker = TRUE,
                               !.require_distro = <<"Exact", "DebianStretch">>]

\* ------------------------------------------------------------------------
\* SpecImages: ImageManifest (tooling/src/state.rs) and DockerImage::_build
\* (tooling/src/docker.rs).
\* ------------------------------------------------------------------------

\* The number of lookup_docker_image calls of a behaviour.
MaxResolves == 3

\* Lines of a manifest file that is loaded.
MaxManifestLines == 2

Toolchain == {"Builtin", "Default", "Python2", "Python3", "RustNightly"}

to_desc_string(t) ==
  CASE t = "Builtin"     -> "_builtin"
    [] t = "Default"     -> "default"
    [] t = "Python2"     -> "python2"
    [] t = "Python3"     -> "python3"
    [] t = "RustNightly" -> "rust_nightly"

from_desc_str_nocustom(s) ==
  CASE s = "_builtin"     -> "Builtin"
    [] s = "default"      -> "Default"
    [] s = "python2"      -> "Python2"
    [] s = "python3"      -> "Python3"
    [] s = "rust_nightly" -> "RustNightly"
    [] OTHER              -> "None"

\* The description: the whitespace-separated parts, each split at its "=".
to_desc(s) ==
  (IF s.cuda # "None" THEN << <<"cuda", s.cuda>> >> ELSE << >>)
  \o << <<"distro_codename", s.distro_codename>>, <<"distro_id", s.distro_id>> >>
  \o (IF s.docker THEN << <<"docker">> >> ELSE << >>)
  \o (IF s.nvidia_docker THEN << <<"nvidia_docker">> >> ELSE << >>)
  \o (IF s.toolchain # "None"
      THEN << <<"toolchain", to_desc_string(s.toolchain)>> >> ELSE << >>)

\* The keyed hash of the description under the root key: equal hashes iff
\* equal keys and equal descriptions.
to_hash(s, root_key) == [key |-> root_key, desc |-> to_desc(s)]

to_hash_digest(s, root_key) == [hex |-> to_hash(s, root_key)]

_to_nvidia_docker_base_image(s) ==
  CASE s.distro_codename = "centos_6"
         /\ s.cuda \in {"v7_0", "v7_5", "v8_0", "v9_0", "v9_1", "v9_2", "v10_0", "v10_1"}
         -> "nvidia/cuda-centos6"
    [] s.distro_codename = "centos_7" /\ s.cuda = "None" -> "nvidia/driver-centos7"
    [] s.distro_codename = "ubuntu_xenial" /\ s.cuda = "v10_1" -> "nvidia/cuda-ubuntu16.04"
    [] s.distro_codename = "ubuntu_bionic" /\ s.cuda \in {"v9_2", "v10_0", "v10_1"}
         -> "nvidia/cuda-ubuntu18.04"
    [] OTHER -> "None"

_to_distro_docker_base_image(s) ==
  IF s.distro_codename \in
       {"alpine_3_8", "alpine_3_9", "centos_6", "centos_7", "debian_wheezy",
        "debian_jessie", "debian_stretch", "debian_buster", "ubuntu_trusty",
        "ubuntu_xenial", "ubuntu_bionic"}
  THEN s.distro_codename ELSE "None"

to_docker_base_image(s) ==
  IF s.nvidia_docker THEN _to_nvidia_docker_base_image(s)
  ELSE IF s.cuda # "None" THEN "None"
  ELSE _to_distro_docker_base_image(s)

ImageSpecBuilder ==
  [cuda |-> "None", distro_codename |-> "None", distro_id |-> "None",
   docker |-> FALSE, nvidia_docker |-> FALSE, toolchain |-> "None", bad |-> FALSE]

\* One part of a manifest line; bad stands for the Err return.
manifest_part(b, part) ==
  IF Len(part) = 1
  THEN CASE part[1] = "docker"        -> [b EXCEPT !.docker = TRUE]
         [] part[1] = "nvidia_docker" -> [b EXCEPT !.nvidia_docker = TRUE]
         [] OTHER                     -> [b EXCEPT !.bad = TRUE]
  ELSE CASE part[1] = "cuda"
              /\ part[2] \in {"v6_5", "v7_0", "v7_5", "v8_0", "v9_0", "v9_1",
                              "v9_2", "v10_0", "v10_1"}
              -> [b EXCEPT !.cuda = part[2]]
         [] part[1] = "distro_codename"
              /\ part[2] \in {"alpine_3_8", "alpine_3_9", "centos_6", "centos_7",
                              "debian_wheezy", "debian_jessie", "debian_stretch",
                              "debian_buster", "ubuntu_trusty", "ubuntu_xenial",
                              "ubuntu_bionic"}
              -> [b EXCEPT !.distro_codename = part[2]]
         [] part[1] = "distro_id"
              /\ part[2] \in {"alpine", "centos", "debian", "ubuntu"}
              -> [b EXCEPT !.distro_id = part[2]]
         [] part[1] = "toolchain" /\ from_desc_str_nocustom(part[2]) # "None"
              -> [b EXCEPT !.toolchain = from_desc_str_nocustom(part[2])]
         [] OTHER -> [b EXCEPT !.bad = TRUE]

into_imagespec(b) ==
  [ok |-> ~b.bad /\ b.distro_codename # "None" /\ b.distro_id # "None",
   image |-> [cuda |-> b.cuda, distro_codename |-> b.distro_codename,
              distro_id |-> b.distro_id, docker |-> b.docker,
              nvidia_docker |-> b.nvidia_docker, toolchain |-> b.toolchain]]

\* What dump writes for one ImageSpec: the hex digest, then the description.
ManifestLine(s, root_key) ==
  [digest |-> to_hash_digest(s, root_key), parts |-> to_desc(s)]

\* One line of the manifest file: ok is FALSE for the Err return (a bad part,
\* a missing distro, or a hash that is not the hash of the ImageSpec read).
manifest_line(line, root_key) ==
  LET RECURSIVE parts(_, _)
      parts(b, i) == IF i > Len(line.parts) \/ b.bad THEN b
                     ELSE parts(manifest_part(b, line.parts[i]), i + 1)
  IN  The({ [ok |-> r.ok /\ to_hash(r.image, root_key) = line.digest.hex,
             image |-> r.image] : r \in {into_imagespec(parts(ImageSpecBuilder, 1))} })

\* A parse that leaves out the lines that do not read back.
ImageManifest_parse_SkipBad(lines, root_key) ==
  LET RECURSIVE F(_)
      F(i) == IF i > Len(lines) THEN << >>
              ELSE LET r == manifest_line(lines[i], root_key) IN
                   (IF r.ok THEN <<r.image>> ELSE << >>) \o F(i + 1)
  IN  [ok |-> TRUE, imagespecs |-> F(1)]

\* ImageManifest::parse: every line read back, or Err.
ImageManifest_parse(lines, root_key) ==
  The({ [ok |-> \A i \in 1 .. Len(lines) : rs[i].ok,
         imagespecs |-> [i \in 1 .. Len(lines) |-> rs[i].image]] :
        rs \in {[i \in 1 .. Len(lines) |-> manifest_line(lines[i], root_key)]} })

\* ImageManifest::load: a manifest file that is missing or does not parse is
\* cleared and the manifest is empty; Err only when the clearing fails.
ImageManifest_load(disk, root_key, create_ok) ==
  The({ IF disk.exists /\ r.ok
        THEN [res |-> "ok", imagespecs |-> r.imagespecs, disk |-> disk]
        ELSE IF create_ok
        THEN [res |-> "ok", imagespecs |-> << >>,
              disk |-> [exists |-> TRUE, lines |-> << >>]]
        ELSE [res |-> "err", imagespecs |-> << >>, disk |-> disk] :
        r \in {ImageManifest_parse(disk.lines, root_key)} })

\* ImageManifest::dump: File::create truncates the file, then one line per
\* ImageSpec; written is the number of lines that reached the file.
dump(imagespecs, root_key, disk, create_ok, written) ==
  IF ~create_ok THEN [res |-> "err", disk |-> disk]
  ELSE [res |-> IF written >= Len(imagespecs) THEN "ok" ELSE "err",
        disk |-> [exists |-> TRUE,
                  lines |-> [i \in 1 .. Min(written, Len(imagespecs)) |->
                               ManifestLine(imagespecs[i], root_key)]]]

\* What can happen to DockerImage::_build: the template cannot be read, the
\* Dockerfile cannot be created (unwrap) or written, `docker build` cannot be
\* spawned, or it runs and exits with status zero or non-zero.
BuildOutcomes ==
  {"template_failed", "dockerfile_panic", "write_failed", "spawn_failed",
   "exit_zero", "exit_nonzero"}

\* DockerImage::_build. The exit status of `docker build` is not looked at
\* (proc.wait().ok()): the call is Ok once the process was spawned.
_build(s, out) ==
  CASE out = "template_failed"  -> [res |-> "err", spawned |-> FALSE]
    [] out = "dockerfile_panic" -> [res |-> "panic", spawned |-> FALSE]
    [] out = "write_failed"     -> [res |-> "err", spawned |-> FALSE]
    [] OTHER ->
         IF to_docker_base_image(s) = "None" THEN [res |-> "err", spawned |-> FALSE]
         ELSE IF out = "spawn_failed" THEN [res |-> "err", spawned |-> FALSE]
         ELSE [res |-> "ok", spawned |-> TRUE]

\* lookup_docker_image past the scan: build, push, dump.
lookup_miss(self, lookup_image, root_key, disk, out, create_ok, written) ==
  The({ IF b.res # "ok"
        THEN [res |-> b.res, hit |-> FALSE, spawned |-> b.spawned,
              imagespecs |-> self, disk |-> disk, dumped |-> "none"]
        ELSE The({ [res |-> d.res, hit |-> FALSE, spawned |-> TRUE,
                    imagespecs |-> Append(self, lookup_image), disk |-> d.disk,
                    dumped |-> d.res] :
                   d \in {dump(Append(self, lookup_image), root_key, disk,
                               create_ok, written)} }) :
        b \in {_build(lookup_image, out)} })

\* A lookup that does not scan the manifest.
lookup_docker_image_NoScan(self, lookup_image, root_key, disk, out, create_ok, written) ==
  lookup_miss(self, lookup_image, root_key, disk, out, create_ok, written)

\* ImageManifest::lookup_docker_image: res is "ok" (the handle DockerImage of
\* lookup_image is returned), "err" or "panic".
lookup_docker_image(self, lookup_image, root_key, disk, out, create_ok, written) ==
  IF \E i \in 1 .. Len(self) : self[i] = lookup_image
  THEN [res |-> "ok", hit |-> TRUE, spawned |-> FALSE, imagespecs |-> self,
        disk |-> disk, dumped |-> "none"]
  ELSE lookup_miss(self, lookup_image, root_key, disk, out, create_ok, written)

\* The manifest files the daemon can start on: none, an empty one, one that
\* holds the builtin image, and one written under another root key.
ManifestFiles(root_key) ==
  { [exists |-> FALSE, lines |-> << >>],
    [exists |-> TRUE, lines |-> << >>],
    [exists |-> TRUE, lines |-> <<ManifestLine(builtin_default, root_key)>>],
    [exists |-> TRUE,
     lines |-> <<ManifestLine(builtin_default, IF root_key = KeyA THEN KeyB ELSE KeyA)>>] }

InitImages ==
  /\ ContextUp
  /\ reconn = ReconnectNew
  /\ ipc = NoIpc
  /\ parse = NoParse
  /\ net = NoNet
  /\ mf = NoMf
  /\ evbuf = NoEvbuf
  /\ \E root_key \in {KeyA, KeyB} :
       \E disk \in ManifestFiles(root_key) :
         images = [NoImages EXCEPT !.root_key = root_key, !.disk = disk,
                                   !.last.pre_disk = disk]

\* ImageManifest::load at the head of a resolve (daemon.rs 685 and 1147,
\* cli.rs 712).
ImageLoad ==
  /\ \E create_ok \in BOOLEAN :
       \E r \in {ImageManifest_load(images.disk, images.root_key, create_ok)} :
         images' = [images EXCEPT
                      !.loaded = (r.res = "ok"),
                      !.imagespecs = r.imagespecs,
                      !.disk = r.disk,
                      !.last = [op |-> "load", res |-> r.res, spec |-> builtin_default,
                                hit |-> FALSE, spawned |-> FALSE, build |-> "none",
                                pre_imagespecs |-> images.imagespecs,
                                pre_disk |-> images.disk]]
  /\ UNCHANGED <<codecVars, authVars, runVars, reconn, ipc, parse, net, mf, evbuf>>

\* lookup_docker_image on the loaded manifest (daemon.rs 698 and 1155, cli.rs
\* 720 and 751).
ImageLookup ==
  /\ images.loaded
  /\ images.resolves < MaxResolves
  /\ \E lookup_image \in ImageSpecs, out \in BuildOutcomes, create_ok \in BOOLEAN,
        written \in 0 .. Len(images.imagespecs) + 1 :
       \E r \in {lookup_docker_image(images.imagespecs, lookup_image, images.root_key,
                                     images.disk, out, create_ok, written)} :
         images' = [images EXCEPT
                      !.imagespecs = r.imagespecs,
                      !.disk = r.disk,
                      !.built = IF r.spawned THEN Append(@, lookup_image) ELSE @,
                      !.handles = IF r.res = "ok"
                                  THEN @ \cup {<<lookup_image,
                                                 to_hash_digest(lookup_image, images.root_key)>>}
                                  ELSE @,
                      !.dump_failed = @ \/ r.dumped = "err",
                      !.resolves = @ + 1,
                      !.last = [op |-> "lookup", res |-> r.res, spec |-> lookup_image,
                                hit |-> r.hit, spawned |-> r.spawned,
                                build |-> IF r.hit THEN "none"
                                          ELSE IF r.spawned THEN out
                                          ELSE "not_spawned",
                                pre_imagespecs |-> images.imagespecs,
                                pre_disk |-> images.disk]]
  /\ UNCHANGED <<codecVars, authVars, runVars, reconn, ipc, parse, net, mf, evbuf>>

NextImages == ImageLoad \/ ImageLookup

SpecImages == InitImages /\ [][NextImages]_vars

\* How many times `docker build` was spawned for ImageSpec s.
Builds(s) == Cardinality({i \in 1 .. Len(images.built) : images.built[i] = s})

C20_AppendOnlyAfterBuildSucceeded ==
  images.last.op = "lookup" /\ ~images.last.hit /\ images.last.build # "exit_zero"
    => /\ images.imagespecs = images.last.pre_imagespecs
       /\ images.disk = images.last.pre_disk

\* `docker build` exited with a non-zero status and the ImageSpec is in the
\* manifest in memory and in the manifest file.
C20_Witness ==
  /\ images.last.op = "lookup" /\ images.last.build = "exit_nonzero"
  /\ images.imagespecs = Append(images.last.pre_imagespecs, images.last.spec)
  /\ images.disk.exists
  /\ \E i \in 1 .. Len(images.disk.lines) :
       images.disk.lines[i] = ManifestLine(images.last.spec, images.root_key)
  /\ \A i \in 1 .. Len(images.last.pre_disk.lines) :
       images.last.pre_disk.lines[i] # ManifestLine(images.last.spec, images.root_key)

\* ------------------------------------------------------------------------
\* The confirmations of SpecAuth that arrive with no request outstanding.
\* ------------------------------------------------------------------------

\* C22: a step that processes a positive confirmation of a sequence whose
\* _maybe flag is false leaves the _maybe flag, the confirmed flag and the
\* persisted bit, in memory and in the file, as they were.
C22_StaleConfirmationNoOp ==
  [][ /\ (last'.ev = "Pos" /\ last'.seq = "Auth" /\ ~auth_maybe)
         => /\ auth_maybe' = auth_maybe /\ auth' = auth
            /\ root_manifest'.auth_bit = root_manifest.auth_bit
            /\ disk_flags'.auth_bit = disk_flags.auth_bit
      /\ (last'.ev = "Pos" /\ last'.seq = "RegisterMachine" /\ ~machine_reg_maybe)
         => /\ machine_reg_maybe' = machine_reg_maybe /\ machine_reg' = machine_reg
            /\ root_manifest'.mach_reg_bit = root_manifest.mach_reg_bit
            /\ disk_flags'.mach_reg_bit = disk_flags.mach_reg_bit ]_vars

\* A positive confirmation of Auth was processed with auth_maybe false and
\* the write of the file went through: the bit that an earlier session had
\* persisted is cleared in memory and in the file.
C22_Witness ==
  /\ last.ev = "Pos" /\ last.seq = "Auth" /\ ~last.write_failed
  /\ ~auth_maybe /\ ~auth
  /\ hist["Auth"] = "none"
  /\ ~root_manifest.auth_bit /\ ~disk_flags.auth_bit

-----------------------------------------------------------------------------
(* SpecConn: the daemon from its start: the registry connections (threads  *)
(* running ws::connect with a BotWsConn handler), the rendezvous of        *)
(* _reconnect_reg, the watchdog and the event loop.                        *)
(* SpecEcho: the keepalive of an open connection: its timers, the echo     *)
(* counter, the _Echo messages and the _Ping frames.                       *)

\* Connections started in a behaviour.
MaxConns == 2

\* BotWsMsg signals, and _Echo messages, queued at a time.
MaxSignals == 2

\* Values the echo counter issues.
MaxEchoCtr == 3

\* The connection thread runs, or may still run a handler callback.
Alive(st) == st \in {"connecting", "open", "closing", "shutdown"}

\* The Reconnect record without the history that SpecWatchdog keeps of one
\* connection: net holds the connections here.
Plain(r) ==
  [r EXCEPT !.conn = "none", !.handled = FALSE, !.opened_since = FALSE,
            !.reopened = FALSE, !.skipped = FALSE, !.woke_open = FALSE]

BotWsMsg(sig, id) == [sig |-> sig, id |-> id]

Ev(op, token, sent, failed) ==
  [op |-> op, token |-> token, sent |-> sent, failed |-> failed]

\* A comparison that takes every token for the latest.
EchoIsLatest_Any(echo_ctr, reg_echo_ctr) == TRUE

\* The _Echo arm's comparison of the token with the counter.
EchoIsLatest(echo_ctr, reg_echo_ctr) == echo_ctr = reg_echo_ctr

\* on_open / on_message: fetch_add on the counter, then a timeout with the
\* new value as its token.
rearm(n, id) ==
  [n EXCEPT !.reg_echo_ctr = n.reg_echo_ctr + 1,
            !.timers = n.timers \cup {<<id, n.reg_echo_ctr + 1>>}]

\* _reconnect_reg down to its select: the connection thread is spawned and
\* its handle kept in reg_conn_join_h.
Spawn(n, wait) ==
  [n EXCEPT !.conns = Append(n.conns, "connecting"),
            !.join_h = Len(n.conns) + 1,
            !.wait = wait]

\* Context::runloop spawns the watchdog, the worker and the listener thread,
\* which panics when CtlListener::open fails.
EnterRunloop(n, bind_ok) ==
  [n EXCEPT !.ctl_server = IF bind_ok THEN "listening" ELSE "panicked", !.wait = "none"]

\* Whether ws::Sender::send of the handle in reg_sender accepts a frame: not
\* once the connection thread has ended.
SendOutcomes(n) ==
  IF n.sender # 0 /\ Alive(n.conns[n.sender]) THEN TransportOutcomes ELSE {FALSE}

\* The daemon before run_main: the configuration and root manifest files as
\* found.
InitConn ==
  /\ reg_sender = NoSender
  /\ wire = << >>
  /\ wire_msg = << >>
  /\ codec = NoCall
  /\ api_cfg \in {NoAuth, ApiAuth("idGood", "tokA")}
  /\ machine_cfg = FALSE
  /\ root_manifest \in [auth_bit : BOOLEAN, mach_reg_bit : {FALSE}]
  /\ disk_flags = root_manifest
  /\ ContextNew

\* run_main: Context::new (RootManifest::load(&sysroot)?), then _init(false)
\* down to the select of _reconnect_reg; with no api_cfg _reconnect_reg
\* returns at once and runloop starts.
Start ==
  /\ loop = "new"
  /\ \E manifest_ok, bind_ok \in BOOLEAN :
       IF ~manifest_ok
         THEN /\ loop' = "exited"
              /\ net' = [net EXCEPT !.exit_code = 1,
                                    !.ev = Ev("load_failed", 0, FALSE, FALSE)]
              /\ SetCtx(Ctx)
       ELSE IF ~api_cfg.present
         THEN /\ loop' = "select"
              /\ net' = EnterRunloop(net, bind_ok)
              /\ SetCtx(_init(Ctx, FALSE, FALSE, FALSE, FALSE, FALSE))
         ELSE /\ loop' = "rendezvous"
              /\ net' = Spawn(net, "boot")
              /\ SetCtx(Ctx)
  /\ UNCHANGED <<codec, ctl_reply, last, runVars, reconn, ipc, parse, images, mf, evbuf>>

\* The select of _reconnect_reg takes the first message of reg2bot: Open
\* installs the handle; anything else makes it return None. The handler
\* that called it goes on: _init with its requests (and, at the start,
\* runloop), or _RetryApiAuth with _retry_api_auth and the reply.
Rendezvous ==
  /\ loop = "rendezvous"
  /\ net.reg2bot # << >>
  /\ \E msg \in {Head(net.reg2bot)} :
       \E n \in {[net EXCEPT !.reg2bot = Tail(net.reg2bot),
                             !.sender = IF msg.sig = "Open" THEN msg.id ELSE net.sender,
                             !.wait = "none"]} :
         \E ok1, ok2 \in SendOutcomes(n), bind_ok, client_ok \in BOOLEAN :
           CASE net.wait = "boot" ->
                  \E c \in {_init(Ctx, FALSE, FALSE, msg.sig = "Open", ok1, ok2)} :
                    /\ SetCtx(c)
                    /\ net' = EnterRunloop(n, bind_ok)
                    /\ loop' = "select"
                    /\ ctl_reply' = NoReply
             [] net.wait = "_init" ->
                  \E c \in {_init(Ctx, TRUE, FALSE, msg.sig = "Open", ok1, ok2)} :
                    /\ SetCtx(c)
                    /\ net' = n
                    /\ loop' = "select"
                    /\ ctl_reply' = NoReply
             [] net.wait = "_RetryApiAuth" ->
                  \E r \in {_retry_api_auth(_reconnect_reg(Ctx, msg.sig = "Open").c, ok1)} :
                    /\ SetCtx(r.c)
                    /\ IpcReply([op |-> "_RetryApiAuth", ack |-> "none", some |-> r.some],
                                client_ok)
                    /\ net' = [n EXCEPT
                                 !.exit_code = IF client_ok THEN n.exit_code ELSE 1]
  /\ UNCHANGED <<codec, last, runVars, reconn, ipc, parse, images, mf, evbuf>>

\* LoopbackMsg::_Echo{echo_ctr}: a _Ping when the token is the counter's
\* value and there is a sender.
LoopEcho ==
  /\ loop = "select"
  /\ net.echoes # << >>
  /\ \E echo_ctr \in {Head(net.echoes)}, transport_ok \in SendOutcomes(net) :
       IF ~EchoIsLatest(echo_ctr, net.reg_echo_ctr) \/ ~reg_sender.some
         THEN /\ SetCtx(Ctx)
              /\ net' = [net EXCEPT !.echoes = Tail(net.echoes),
                                    !.ev = Ev("_Echo", echo_ctr, FALSE, FALSE)]
         ELSE \E r \in {CtxSend(Ctx, Msg("_Ping", 0, 0), transport_ok)} :
                /\ SetCtx(r.c)
                /\ net' = [net EXCEPT !.echoes = Tail(net.echoes),
                                      !.ev = Ev("_Echo", echo_ctr, r.some, ~transport_ok)]
  /\ UNCHANGED <<codec, ctl_reply, last, loop, runVars, reconn, ipc, parse, images, mf, evbuf>>

\* LoopbackMsg::_Echo2: _init(true), which reconnects unless Reconnect is
\* open.
LoopEcho2 ==
  /\ loop = "select"
  /\ reconn.echo2 > 0
  /\ reconn' = [reconn EXCEPT !.echo2 = reconn.echo2 - 1]
  /\ IF reconn.open \/ ~api_cfg.present
       THEN \E ok1, ok2 \in SendOutcomes(net) :
              \E c \in {_init(Ctx, TRUE, reconn.open, FALSE, ok1, ok2)} :
                /\ SetCtx(c)
                /\ net' = net
                /\ loop' = "select"
       ELSE /\ Len(net.conns) < MaxConns
            /\ SetCtx(Ctx)
            /\ net' = Spawn(net, "_init")
            /\ loop' = "rendezvous"
  /\ UNCHANGED <<codec, ctl_reply, last, runVars, ipc, parse, images, mf, evbuf>>

\* Ctl2Bot::_RetryApiAuth: _reconnect_reg without a look at Reconnect, then
\* _retry_api_auth and the reply.
LoopRetryApiAuth ==
  /\ loop = "select"
  /\ net.ctl_server = "listening"
  /\ IF ~api_cfg.present
       THEN \E client_ok \in BOOLEAN :
              \E r \in {_retry_api_auth(_reconnect_reg(Ctx, FALSE).c, FALSE)} :
                /\ SetCtx(r.c)
                /\ IpcReply([op |-> "_RetryApiAuth", ack |-> "none", some |-> r.some],
                            client_ok)
                /\ net' = [net EXCEPT
                             !.exit_code = IF client_ok THEN net.exit_code ELSE 1]
       ELSE /\ Len(net.conns) < MaxConns
            /\ SetCtx(Ctx)
            /\ net' = Spawn(net, "_RetryApiAuth")
            /\ loop' = "rendezvous"
            /\ ctl_reply' = NoReply
  /\ UNCHANGED <<codec, last, runVars, reconn, ipc, parse, images, mf, evbuf>>

\* The reg2bot arm of the select: Bin is decoded (a _Pong here), Hup and Error
\* join the thread in reg_conn_join_h, Open falls to the `_ => {}` arm.
LoopRegistry ==
  /\ loop = "select"
  /\ net.reg2bot # << >>
  /\ \E msg \in {Head(net.reg2bot)} :
       CASE msg.sig = "Bin" ->
              /\ IF ~reg_sender.some
                   THEN SetCtx(Ctx) /\ loop' = loop
                 ELSE IF ~api_cfg.present
                   THEN SetCtx(Ctx) /\ loop' = "panicked"
                 ELSE \E r \in {recv_auth(reg_sender.secret_token_buf, api_cfg,
                                          RegistryFrames[Msg("_Pong", 0, 0)])} :
                        /\ SetCtx([Ctx EXCEPT !.reg_sender = BotWsSender(r.buf)])
                        /\ loop' = loop
              /\ net' = [net EXCEPT !.reg2bot = Tail(net.reg2bot)]
         [] msg.sig \in {"Hup", "Error"} ->
              /\ SetCtx(Ctx)
              /\ IF net.join_h # 0 /\ net.conns[net.join_h] # "closed"
                   THEN /\ loop' = "joining"
                        /\ net' = [net EXCEPT !.reg2bot = Tail(net.reg2bot)]
                   ELSE /\ loop' = loop
                        /\ net' = [net EXCEPT !.reg2bot = Tail(net.reg2bot),
                                              !.join_h = 0]
         [] OTHER ->
              /\ SetCtx(Ctx)
              /\ loop' = loop
              /\ net' = [net EXCEPT !.reg2bot = Tail(net.reg2bot)]
  /\ UNCHANGED <<codec, ctl_reply, last, runVars, reconn, ipc, parse, images, mf, evbuf>>

\* h.join() returns once the connection thread has ended.
Joined ==
  /\ loop = "joining"
  /\ net.conns[net.join_h] = "closed"
  /\ loop' = "select"
  /\ net' = [net EXCEPT !.join_h = 0]
  /\ SetCtx(Ctx)
  /\ UNCHANGED <<codec, ctl_reply, last, runVars, reconn, ipc, parse, images, mf, evbuf>>

\* BotWsConn::on_open
ConnOpen ==
  /\ \E id \in 1 .. Len(net.conns) :
       /\ net.conns[id] = "connecting"
       /\ net.reg_echo_ctr < MaxEchoCtr
       /\ Len(net.reg2bot) < MaxSignals
       /\ reconn' = Plain(on_open(reconn))
       /\ net' = [rearm(net, id) EXCEPT
                    !.conns[id] = "open",
                    !.reg2bot = Append(net.reg2bot, BotWsMsg("Open", id))]
  /\ UNCHANGED <<codecVars, authVars, runVars, ipc, parse, images, mf, evbuf>>

\* BotWsConn::on_message: a binary message goes to the event loop.
ConnMessage ==
  /\ \E id \in 1 .. Len(net.conns), binary \in BOOLEAN :
       /\ net.conns[id] = "open"
       /\ net.reg_echo_ctr < MaxEchoCtr
       /\ Len(net.reg2bot) < MaxSignals
       /\ net' = [rearm(net, id) EXCEPT
                    !.reg2bot = IF binary THEN Append(net.reg2bot, BotWsMsg("Bin", id))
                                ELSE net.reg2bot]
  /\ UNCHANGED <<codecVars, authVars, runVars, reconn, ipc, parse, images, mf, evbuf>>

\* BotWsConn::on_timeout: a scheduled timeout fires.
ConnTimeout ==
  /\ Len(net.echoes) < MaxSignals
  /\ \E tm \in net.timers :
       /\ net.conns[tm[1]] = "open"
       /\ net' = [net EXCEPT !.timers = net.timers \ {tm},
                             !.echoes = Append(net.echoes, tm[2])]
  /\ UNCHANGED <<codecVars, authVars, runVars, reconn, ipc, parse, images, mf, evbuf>>

\* BotWsConn::on_close / on_error / on_shutdown: at most two of them run for
\* a connection.
ConnHangup ==
  /\ reconn.watchdog_q < MaxHups
  /\ Len(net.reg2bot) < MaxSignals
  /\ \E id \in 1 .. Len(net.conns), sig \in {"Hup", "Error"} :
       /\ net.conns[id] \in {"connecting", "open", "closing"}
       /\ reconn' = Plain(on_close(reconn))
       /\ net' = [net EXCEPT
                    !.conns[id] = IF net.conns[id] = "closing" THEN "shutdown" ELSE "closing",
                    !.reg2bot = Append(net.reg2bot, BotWsMsg(sig, id))]
  /\ UNCHANGED <<codecVars, authVars, runVars, ipc, parse, images, mf, evbuf>>

\* ws::connect returns and the connection thread ends: after the callbacks
\* of a connection that closed, or with Err for a connection that was never
\* made, in which case the thread prints and no handler has run.
ConnEnd ==
  /\ \E id \in 1 .. Len(net.conns) :
       /\ net.conns[id] \in {"connecting", "closing", "shutdown"}
       /\ net' = [net EXCEPT
                    !.conns[id] = "closed",
                    !.timers = {tm \in net.timers : tm[1] # id}]
  /\ UNCHANGED <<codecVars, authVars, runVars, reconn, ipc, parse, images, mf, evbuf>>

\* The watchdog thread, which runloop spawns, takes a _WsHup.
ConnWatchdogHup ==
  /\ net.ctl_server # "none"
  /\ reconn.wd = "recv"
  /\ reconn.watchdog_q > 0
  /\ reconn.open \/ (reconn.backoff_count < MaxBackoffCount /\ reconn.echo2 < MaxHups)
  /\ reconn' = Plain(watchdog_hup(reconn))
  /\ UNCHANGED <<codecVars, authVars, runVars, ipc, parse, images, net, mf, evbuf>>

\* The watchdog thread wakes up.
ConnWatchdogWake ==
  /\ reconn.wd = "sleep"
  /\ reconn' = Plain(watchdog_wake(reconn))
  /\ UNCHANGED <<codecVars, authVars, runVars, ipc, parse, images, net, mf, evbuf>>

NextConn ==
  \/ Start
  \/ Rendezvous
  \/ LoopEcho2
  \/ LoopRetryApiAuth
  \/ LoopRegistry
  \/ Joined
  \/ ConnOpen
  \/ ConnHangup
  \/ ConnEnd
  \/ ConnWatchdogHup
  \/ ConnWatchdogWake
  \/ WsFlush

SpecConn == InitConn /\ [][NextConn]_vars

\* The daemon is up and connected: Start, on_open with the first value of the
\* echo counter, and the rendezvous have run.
InitEcho ==
  /\ ContextUp
  /\ reconn = Plain(on_open(ReconnectNew))
  /\ ipc = NoIpc
  /\ parse = NoParse
  /\ images = NoImages
  /\ net = [NoNet EXCEPT !.conns = <<"open">>, !.sender = 1, !.join_h = 1,
                         !.reg_echo_ctr = 1, !.timers = {<<1, 1>>},
                         !.ctl_server = "listening"]
  /\ mf = NoMf
  /\ evbuf = NoEvbuf

NextEcho ==
  \/ ConnMessage
  \/ ConnTimeout
  \/ LoopEcho
  \/ LoopRegistry
  \/ WsFlush

SpecEcho == InitEcho /\ [][NextEcho]_vars

\* C21: each startup failure ends the process with a nonzero exit status: after
\* a failed load of the root manifest, and after a failed bind of the IPC
\* socket, the daemon has exited with a nonzero status; it does not run
\* without its IPC server.
C21_StartupFailureExits ==
  /\ net.ev.op = "load_failed" => (loop = "exited" /\ net.exit_code # 0)
  /\ net.ctl_server = "panicked" => (loop = "exited" /\ net.exit_code # 0)

\* The listener thread has panicked on the bind; the event loop is in its
\* select with the registry connection open.
C21_Witness ==
  /\ net.ctl_server = "panicked"
  /\ loop = "select"
  /\ net.exit_code = 0
  /\ reconn.open
  /\ net.sender # 0

\* The connections whose handler has opened and has not hung up.
OpenConns == {id \in 1 .. Len(net.conns) : net.conns[id] = "open"}

\* C23: at most one registry connection is open at any time, and no step
\* starts a connection while a connection opened earlier is still open.
C23_OneConnection ==
  /\ [](Cardinality(OpenConns) <= 1)
  /\ [][Len(net'.conns) > Len(net.conns) => OpenConns = {}]_vars

\* Two connections are open: the second was started by _RetryApiAuth and its
\* handle replaced the first one's.
C23_Witness ==
  /\ OpenConns = {1, 2}
  /\ net.sender = 2
  /\ reconn.open
  /\ loop = "select"
  /\ reconn.backoff_count = 0
  /\ reconn.watchdog_q = 0

\* C24: whenever Reconnect says open and the event loop waits in its select,
\* reg_sender is the handle of the connection that is open; a step that
\* takes an Open signal from the registry queue installs its handle.
C24_SenderIsOpenConnection ==
  /\ []((reconn.open /\ loop = "select")
          => (net.sender # 0 /\ net.conns[net.sender] = "open"))
  /\ [][(net.reg2bot # << >> /\ net'.reg2bot = Tail(net.reg2bot)
           /\ Head(net.reg2bot).sig = "Open")
          => net'.sender = Head(net.reg2bot).id]_vars

\* The second connection is open and Reconnect says so, its Open signal was
\* taken by the select of the event loop, and reg_sender is still the
\* handle of the first connection, which has ended.
C24_Witness ==
  /\ reconn.open
  /\ loop = "select"
  /\ net.conns = <<"closed", "open">>
  /\ net.sender = 1
  /\ net.reg2bot = << >>
  /\ reconn.watchdog_q = 0
  /\ reconn.wd = "recv"
  /\ reconn.echo2 = 0

\* C29: the event-loop thread waits only in its select: while it handles an
\* IPC request, a registry message or a loopback message it is never waiting
\* on the connection rendezvous or on the end of a connection thread.
C29_LoopWaitsOnlyInSelect ==
  /\ loop = "rendezvous" => net.wait = "boot"
  /\ loop # "joining"

\* The event loop waits in the rendezvous of _reconnect_reg of an _Echo2 and
\* nothing will wake it: the connection thread has ended without a
\* callback and the registry queue is empty.
C29_Witness ==
  /\ loop = "rendezvous"
  /\ net.wait = "_init"
  /\ net.reg2bot = << >>
  /\ \A id \in 1 .. Len(net.conns) : net.conns[id] = "closed"
  /\ net.ctl_server = "listening"

\* C26: the echo counter only increases; a _Ping is put on the connection
\* only by the step that takes an _Echo whose token is the counter's value;
\* the step that takes an _Echo with another token changes nothing but the
\* queue it was taken from.
C26_EchoCounter ==
  [][ /\ net'.reg_echo_ctr >= net.reg_echo_ctr
      /\ Len(wire') > Len(wire)
           => /\ net.echoes # << >>
              /\ net'.echoes = Tail(net.echoes)
              /\ Head(net.echoes) = net.reg_echo_ctr
              /\ wire_msg' = Append(wire_msg, Msg("_Ping", 0, 0))
      /\ (Len(net'.echoes) < Len(net.echoes) /\ Head(net.echoes) # net.reg_echo_ctr)
           => /\ [net' EXCEPT !.ev = net.ev] = [net EXCEPT !.echoes = Tail(net.echoes)]
              /\ ~net'.ev.sent
              /\ UNCHANGED <<codecVars, authVars, runVars, reconn, ipc, parse, images, mf, evbuf>>
    ]_vars

\* The event loop took an _Echo whose token the counter had passed, with a
\* sender at hand, and sent nothing.
C26_Witness ==
  /\ net.ev.op = "_Echo"
  /\ net.ev.token < net.reg_echo_ctr
  /\ ~net.ev.sent
  /\ ~net.ev.failed
  /\ reg_sender.some
  /\ wire = << >>
  /\ net.conns[net.sender] = "open"

\* C27: on an open connection every inbound message and every outbound
\* message is followed by a keepalive timer armed with a newly issued value
\* of the echo counter.
C27_RearmedAfterEveryMessage ==
  [][ (Len(net'.reg2bot) > Len(net.reg2bot) \/ Len(wire') > Len(wire))
        => /\ net'.reg_echo_ctr = net.reg_echo_ctr + 1
           /\ <<net.sender, net'.reg_echo_ctr>> \in net'.timers
    ]_vars

\* A _Ping went out on the open connection and no keepalive timer is armed:
\* the next _Ping waits for an inbound message.
C27_Witness ==
  /\ net.ev.op = "_Echo"
  /\ net.ev.sent
  /\ wire_msg = <<Msg("_Ping", 0, 0)>>
  /\ net.conns[net.sender] = "open"
  /\ net.timers = {}
  /\ net.echoes = << >>

\* C28: a send that fails leaves Reconnect marked closed and delivers a
\* hangup to the watchdog, and does not end the daemon.
C28_TransportFailureDemotes ==
  [][ (Len(net'.echoes) < Len(net.echoes) /\ net'.ev.failed)
        => /\ ~reconn'.open
           /\ reconn'.watchdog_q = reconn.watchdog_q + 1
           /\ loop' = "select"
    ]_vars

\* The send of a _Ping failed; Reconnect still says open, the watchdog has
\* nothing to do and the event loop is back in its select.
C28_Witness ==
  /\ net.ev.op = "_Echo"
  /\ net.ev.failed
  /\ ~net.ev.sent
  /\ reconn.open
  /\ reconn.watchdog_q = 0
  /\ reconn.wd = "recv"
  /\ reconn.echo2 = 0
  /\ loop = "select"

-----------------------------------------------------------------------------
(* SpecManifest: the event loop and the worker thread resolve images       *)
(* against the one image manifest file, each under a read guard of the     *)
(* shared lock; the event loop writes the root manifest under the write    *)
(* guard.                                                                  *)

\* Handlers begun in a behaviour.
MaxManifestUses == 3

\* The ImageSpec of a CI task: the builtin image or the image of its taskspec.
TaskImages == {s \in ImageSpecs : s.toolchain \in {"Builtin", "Python3"}}

Elems(s) == {s[i] : i \in 1 .. Len(s)}

\* The daemon is up; the image manifest file is empty, lists the builtin
\* image, or does not parse.
InitManifest ==
  /\ ContextUp
  /\ reconn = ReconnectNew
  /\ ipc = NoIpc
  /\ parse = NoParse
  /\ images = NoImages
  /\ net = NoNet
  /\ mf \in {[NoMf EXCEPT !.file = f] :
               f \in {[corrupt |-> FALSE, imagespecs |-> << >>],
                      [corrupt |-> FALSE, imagespecs |-> <<builtin_default>>],
                      [corrupt |-> TRUE, imagespecs |-> << >>]}}
  /\ evbuf = NoEvbuf

\* A thread begins its handler: the event loop takes self.shared.read() for
\* a _NewCiRun and looks up the builtin image, the worker is handed
\* shared.read() for a CiTask. A read guard waits for a writer only.
ResolveBegin ==
  /\ mf.uses < MaxManifestUses
  /\ ~mf.writer
  /\ \E t \in Threads :
       \E image \in IF t = "event_loop" THEN {builtin_default} ELSE TaskImages :
         /\ mf.pc[t] = "idle"
         /\ mf' = [mf EXCEPT !.readers = mf.readers \cup {t},
                             !.pc[t] = "load",
                             !.want[t] = image,
                             !.uses = mf.uses + 1]
  /\ UNCHANGED <<codecVars, authVars, runVars, reconn, ipc, parse, images, net, evbuf>>

\* ImageManifest::load: File::open and parse.
ManifestLoad ==
  /\ \E t \in Threads :
       /\ mf.pc[t] = "load"
       /\ mf' = IF mf.file.corrupt
                  THEN [mf EXCEPT !.pc[t] = "clear"]
                  ELSE [mf EXCEPT !.pc[t] = "lookup", !.local[t] = mf.file.imagespecs]
  /\ UNCHANGED <<codecVars, authVars, runVars, reconn, ipc, parse, images, net, evbuf>>

\* ImageManifest::load, or_else: File::create clears the file and the
\* manifest is empty.
ManifestClear ==
  /\ \E t \in Threads :
       /\ mf.pc[t] = "clear"
       /\ mf' = [mf EXCEPT !.pc[t] = "lookup",
                           !.local[t] = << >>,
                           !.file = [corrupt |-> FALSE, imagespecs |-> << >>]]
  /\ UNCHANGED <<codecVars, authVars, runVars, reconn, ipc, parse, images, net, evbuf>>

\* lookup_docker_image: the scan, and on a miss _build and the push.
ManifestLookup ==
  /\ \E t \in Threads :
       /\ mf.pc[t] = "lookup"
       /\ mf' = IF mf.want[t] \in Elems(mf.local[t])
                  THEN [mf EXCEPT !.pc[t] = "run"]
                  ELSE [mf EXCEPT !.pc[t] = "dump",
                                  !.local[t] = Append(mf.local[t], mf.want[t]),
                                  !.built = mf.built \cup {mf.want[t]}]
  /\ UNCHANGED <<codecVars, authVars, runVars, reconn, ipc, parse, images, net, evbuf>>

\* ImageManifest::dump: File::create truncates the file.
DumpCreate ==
  /\ \E t \in Threads :
       /\ mf.pc[t] = "dump"
       /\ mf' = [mf EXCEPT !.pc[t] = "write",
                           !.file = [corrupt |-> FALSE, imagespecs |-> << >>]]
  /\ UNCHANGED <<codecVars, authVars, runVars, reconn, ipc, parse, images, net, evbuf>>

\* ImageManifest::dump: the lines of the manifest in memory reach the file
\* when the BufWriter is dropped.
DumpWrite ==
  /\ \E t \in Threads :
       /\ mf.pc[t] = "write"
       /\ mf' = [mf EXCEPT !.pc[t] = "run",
                           !.file = [corrupt |-> FALSE, imagespecs |-> mf.local[t]]]
  /\ UNCHANGED <<codecVars, authVars, runVars, reconn, ipc, parse, images, net, evbuf>>

\* The checkout or the task has run; the handler returns and its read guard
\* is dropped.
ResolveEnd ==
  /\ \E t \in Threads :
       /\ mf.pc[t] = "run"
       /\ mf' = [mf EXCEPT !.pc[t] = "idle", !.readers = mf.readers \ {t}]
  /\ UNCHANGED <<codecVars, authVars, runVars, reconn, ipc, parse, images, net, evbuf>>

\* Registry2BotV0::Auth: the event loop takes self.shared.write(), which
\* waits for the read guards to be dropped.
RootWriteBegin ==
  /\ mf.uses < MaxManifestUses
  /\ mf.pc["event_loop"] = "idle"
  /\ mf.readers = {}
  /\ ~mf.writer
  /\ mf' = [mf EXCEPT !.writer = TRUE, !.pc["event_loop"] = "root_write",
                      !.uses = mf.uses + 1]
  /\ UNCHANGED <<codecVars, authVars, runVars, reconn, ipc, parse, images, net, evbuf>>

\* set_auth_bit writes the root manifest file; the write guard is dropped.
RootWriteEnd ==
  /\ mf.pc["event_loop"] = "root_write"
  /\ mf' = [mf EXCEPT !.writer = FALSE, !.pc["event_loop"] = "idle"]
  /\ root_manifest' = [root_manifest EXCEPT !.auth_bit = TRUE]
  /\ disk_flags' = [disk_flags EXCEPT !.auth_bit = TRUE]
  /\ auth' = TRUE
  /\ UNCHANGED <<codecVars, api_cfg, machine_cfg, auth_maybe, machine_reg_maybe,
                 machine_reg, ctl_reply, last, hist, loop, runVars, reconn, ipc,
                 parse, images, net, evbuf>>

NextManifest ==
  \/ ResolveBegin
  \/ ManifestLoad
  \/ ManifestClear
  \/ ManifestLookup
  \/ DumpCreate
  \/ DumpWrite
  \/ ResolveEnd
  \/ RootWriteBegin
  \/ RootWriteEnd

SpecManifest == InitManifest /\ [][NextManifest]_vars

\* The threads between the load of the image manifest and the end of its
\* rewrite, or writing the root manifest.
Rewriting == {t \in Threads : mf.pc[t] \in {"load", "clear", "lookup", "dump", "write", "root_write"}}

\* C30: at most one thread at a time is loading-and-rewriting the image
\* manifest file or writing the root manifest file, and once the threads are
\* done every image that was built is listed in the image manifest file.
C30_ManifestWritesSerialized ==
  /\ Cardinality(Rewriting) <= 1
  /\ (\A t \in Threads : mf.pc[t] = "idle") => mf.built \subseteq Elems(mf.file.imagespecs)

\* Both threads built an image and are done; the file lists the image of
\* the worker only.
C30_Witness ==
  /\ \A t \in Threads : mf.pc[t] = "idle"
  /\ mf.built = TaskImages
  /\ mf.file.imagespecs = <<mf.want["worker"]>>
  /\ mf.want["worker"] # builtin_default
  /\ mf.readers = {}

-----------------------------------------------------------------------------
(* The flags of the two sequences in every state, through retries and      *)
(* failed writes, checked under SpecAuth.                                  *)

\* C31: in every state, for each sequence, the confirmed flag being true
\* implies that the _maybe flag is true and that the root manifest's bit in
\* memory is true.
C31_ConfirmedImpliesMaybeAndBit ==
  \A s \in Seqs : Confirmed(s) => (Maybe(s) /\ MemBit(s))

\* Both sequences are confirmed.
C31_Witness ==
  /\ auth /\ auth_maybe /\ root_manifest.auth_bit
  /\ machine_reg /\ machine_reg_maybe /\ root_manifest.mach_reg_bit
  /\ hist["Auth"] = "pos" /\ hist["RegisterMachine"] = "pos"

\* The step put a frame of this message on the connection.
Sent(tag) ==
  \E i \in Len(wire) + 1 .. Len(wire') : wire_msg'[i].tag = tag

\* C32: a step that puts the request of a sequence on the connection leaves
\* the _maybe flag true and the confirmed flag false; the _maybe flag
\* becomes true only in such a step; and a retry requested over IPC that
\* replies None (no API config, no connection, malformed key, send error)
\* leaves both flags false.
C32_RetryResetsFlags ==
  [][ /\ Sent("Auth") => (auth_maybe' /\ ~auth')
      /\ Sent("RegisterMachine") => (machine_reg_maybe' /\ ~machine_reg')
      /\ (~auth_maybe /\ auth_maybe') => Sent("Auth")
      /\ (~machine_reg_maybe /\ machine_reg_maybe') => Sent("RegisterMachine")
      /\ (Len(wire') >= Len(wire) /\ ctl_reply'.op = "_RetryApiAuth")
           => /\ ~auth'
              /\ auth_maybe' = ctl_reply'.some
              /\ ctl_reply'.some = Sent("Auth")
      /\ (Len(wire') >= Len(wire) /\ ctl_reply'.op = "ConfirmRegisterMachine")
           => /\ ~machine_reg'
              /\ machine_reg_maybe' = ctl_reply'.some
              /\ ctl_reply'.some = Sent("RegisterMachine")
    ]_vars

\* A retry of a confirmed registration failed in the send: the reply is
\* None and both flags are false, the bit is still set.
C32_Witness ==
  /\ ctl_reply.op = "ConfirmRegisterMachine"
  /\ ~ctl_reply.some
  /\ hist["RegisterMachine"] = "none"
  /\ ~machine_reg_maybe /\ ~machine_reg
  /\ root_manifest.mach_reg_bit
  /\ reg_sender.some /\ api_cfg = ApiAuth("idGood", "tokA")

\* C33: after a positive confirmation during which the write of the root
\* manifest file failed, the confirmed flag is false and the bit in memory
\* is false.
C33_FailedWriteResets ==
  \A s \in Seqs :
    (last.ev = "Pos" /\ last.seq = s /\ last.write_failed)
      => (~Confirmed(s) /\ ~MemBit(s))

\* The confirmation of the request sent could not be written: the _maybe
\* flag is still true, the flag and both copies of the bit are false.
C33_Witness ==
  /\ last.ev = "Pos" /\ last.seq = "RegisterMachine"
  /\ last.fresh /\ last.write_failed
  /\ machine_reg_maybe /\ ~machine_reg
  /\ ~root_manifest.mach_reg_bit /\ ~disk_flags.mach_reg_bit

\* ---------------------------------------------------------------------
\* Inbound registry frames that fail a check of recv_auth, with the
\* configuration reloaded in between: SpecInbound.
\* ---------------------------------------------------------------------

\* The errors of the four checks recv_auth makes on a frame.
InboundFaults ==
  {"API message protocol failure", "API message verification failure",
   "API message self-consistency failure", "API message deserialization failure"}

\* Frames that fail one check each: a frame one byte short of the header, a
\* frame with a changed signature byte, a frame with a changed payload byte,
\* a signed frame whose length field is wrong, and signed frames whose
\* payload is no Registry2BotV0 message.
BadFrames ==
  {Slice(RegistryFrames[Msg("AuthReply", 1, 0)], 0, HeaderLen - 1),
   Tamper(RegistryFrames[Msg("AuthReply", 1, 0)], 1),
   Tamper(RegistryFrames[Msg("RegisterMachineReply", 1, 0)], HeaderLen + 1),
   PeerFrame(RegistryKey, 3, <<TagByte("AuthReply"), 1>>),
   PeerFrame(RegistryKey, 1, <<TagByte("AuthReply")>>),
   PeerFrame(RegistryKey, 0, << >>)}

InboundBins == {RegistryFrames[msg] : msg \in RegistryReplies} \cup BadFrames

\* What recv_auth finds in a frame when it holds the registry's key.
FrameFault(bin) == recv_auth(RegistryKey, NoAuth, bin).err

\* BotWsMsg::Bin(bin), the whole arm, with the frame and the outcome of
\* recv_auth recorded: with no sender the frame is skipped; api_cfg is
\* unwrapped; the frame is decoded; a frame that fails is skipped and a
\* decoded message is dispatched.
InboundBin ==
  /\ loop = "select"
  /\ \E bin \in InboundBins :
       IF ~reg_sender.some
         THEN /\ SetCtx(Ctx)
              /\ last' = NoEvent
              /\ loop' = loop
              /\ codec' = [NoCall EXCEPT !.op = "skip", !.a = api_cfg,
                             !.src = "registry", !.bin = bin]
       ELSE IF ~api_cfg.present
         THEN /\ SetCtx(Ctx)
              /\ last' = NoEvent
              /\ loop' = "panicked"
              /\ codec' = [NoCall EXCEPT !.op = "unwrap", !.a = api_cfg,
                             !.buf_before = reg_sender.secret_token_buf,
                             !.src = "registry", !.bin = bin]
       ELSE \E r \in {recv_auth(reg_sender.secret_token_buf, api_cfg, bin)} :
              LET c == [Ctx EXCEPT !.reg_sender = BotWsSender(r.buf)] IN
              /\ loop' = loop
              /\ codec' = [NoCall EXCEPT !.op = "recv", !.a = api_cfg,
                             !.buf_before = reg_sender.secret_token_buf,
                             !.src = "registry", !.bin = bin, !.err = r.err,
                             !.buf = r.buf, !.msg = r.msg,
                             !.verified = r.verified,
                             !.len_checked = r.len_checked,
                             !.parsed = r.parsed]
              /\ IF r.err # "ok"
                   THEN /\ SetCtx(c)
                        /\ last' = NoEvent
                   ELSE \E w1 \in BOOLEAN :
                          \E w2 \in IF w1 THEN {TRUE} ELSE BOOLEAN :
                            Dispatch(c, r.msg, w1, w2)
  /\ ctl_reply' = NoReply
  /\ UNCHANGED <<restVars, runVars>>

NextInbound ==
  \/ Boot
  \/ WsFlush
  \/ IpcReloadConfig
  \/ InboundBin

SpecInbound == InitAuth /\ [][NextInbound]_vars

\* C34: an inbound registry frame that fails the size check, the signature
\* verification, the length check or the deserialization is dropped with no
\* other effect: the step that handles it leaves the auth and registration
\* flags, the persisted bits (in memory and in the file) and the event
\* buffer as they were,
\* dispatches no task, sends nothing, and leaves the event loop selecting.
C34_BadFrameDropped ==
  [][ (codec' # codec /\ codec'.src = "registry"
         /\ codec'.op \in {"recv", "unwrap"}
         /\ FrameFault(codec'.bin) \in InboundFaults)
        => /\ UNCHANGED <<auth_maybe, auth, machine_reg_maybe, machine_reg>>
           /\ UNCHANGED <<root_manifest, disk_flags, evbuf>>
           /\ UNCHANGED <<wire, wire_msg, runVars>>
           /\ loop' = "select" ]_vars

\* The event loop has unwrapped an absent api_cfg on a frame with a changed
\* signature byte.
C34_Witness ==
  /\ codec.op = "unwrap"
  /\ FrameFault(codec.bin) = "API message verification failure"
  /\ reg_sender.some
  /\ ~api_cfg.present
  /\ loop = "panicked"

\* C38: after any sequence of IPC requests, a ReloadConfig that leaves the
\* daemon with no API config while a registry connection exists included,
\* every inbound registry frame is handled or dropped and the event loop
\* goes on: no frame ends it.
C38_FrameNeverEndsLoop ==
  [][ (codec' # codec /\ codec'.src = "registry") => loop' = "select" ]_vars

\* The daemon authenticated, its configuration was reloaded without an API
\* config, and a well-formed AuthReply of the registry ended the event loop.
C38_Witness ==
  /\ loop = "panicked"
  /\ codec.op = "unwrap"
  /\ codec.bin = RegistryFrames[Msg("AuthReply", 1, 0)]
  /\ hist["Auth"] = "sent"
  /\ reg_sender.some
  /\ ~api_cfg.present

-----------------------------------------------------------------------------
(* SpecDrop: a CI run while the registry connection drops and is opened    *)
(* again; the worker thread takes every task it is sent and every          *)
(* container ends.                                                         *)

\* The daemon is up and its connection is open.
InitDrop ==
  /\ ContextUp
  /\ reconn = [ReconnectNew EXCEPT !.open = TRUE, !.conn = "open"]
  /\ ipc = NoIpc
  /\ parse = NoParse
  /\ images = NoImages
  /\ net = NoNet
  /\ mf = NoMf
  /\ evbuf = NoEvbuf

\* The connection ends, once, during a run that was dispatched: on_close /
\* on_shutdown set Reconnect.open false and queue BotWsMsg::Hup, whose arm
\* joins the connection thread; reg_sender is left as it is.
DropHangup ==
  /\ loop = "select"
  /\ reconn.open
  /\ ~reconn.handled
  /\ run.state = "dispatched"
  /\ reconn' = [reconn EXCEPT !.open = FALSE, !.conn = "none", !.handled = TRUE,
                              !.opened_since = FALSE]
  /\ UNCHANGED <<codecVars, authVars, runVars, ipc, parse, images, net, mf, evbuf>>

\* LoopbackMsg::_Echo2 after a hangup: _init(true) connects again and, when
\* the connection opens, a new BotWsSender replaces the old one.
DropReconnect ==
  /\ loop = "select"
  /\ ~reconn.open
  /\ \E opened \in BOOLEAN, ok1, ok2 \in BOOLEAN :
       /\ SetCtx(_init(Ctx, TRUE, FALSE, opened, ok1, ok2))
       /\ reconn' = [reconn EXCEPT !.open = opened,
                                   !.conn = IF opened THEN "open" ELSE "none",
                                   !.opened_since = opened,
                                   !.reopened = reconn.reopened \/ opened]
  /\ last' = NoEvent
  /\ ctl_reply' = NoReply
  /\ UNCHANGED <<codec, loop, runVars, ipc, parse, images, net, mf, evbuf>>

NextDrop ==
  \/ RegistryNewCiRun
  \/ WorkerStart
  \/ MonitorLine
  \/ WorkerDone
  \/ LoopbackStartCiTask
  \/ LoopbackAppendCiTaskData
  \/ LoopbackDoneCiTask
  \/ DropHangup
  \/ DropReconnect

\* The worker thread blocks in workerlb_r.recv() only while the queue is
\* empty, and a container that was started ends.
SpecDrop ==
  /\ InitDrop
  /\ [][NextDrop]_vars
  /\ WF_vars(WorkerStart)
  /\ WF_vars(WorkerDone)

\* The reports that were handed to the connection.
SentReports == {wire_msg[i] : i \in DOMAIN wire_msg}

-----------------------------------------------------------------------------
(* SpecEvbuf: the event buffer, filled by the registry's replies to        *)
(* RegisterCiMachine and RegisterCiRepo and polled over IPC.               *)

\* Events in the buffer.
MaxEvents == 3

EventKinds == {"RegisterCiMachine", "RegisterCiRepo"}

\* Event::RegisterCiMachine, Event::RegisterCiRepo(rep) and the two Cancel
\* events.
Event(kind, some) == [kind |-> kind, some |-> some]

Events == {Event(kind, some) : kind \in EventKinds, some \in BOOLEAN}

\* The AckRegisterCiMachine / AckRegisterCiRepo arm: pop_front; the event of
\* the kind is Done, its Cancel is Stopped; any other event is pushed back
\* at the front and the poll is Pending, as it is on an empty buffer.
ack_register_ci(q, kind) ==
  IF q = << >>
    THEN [evbuf |-> q, ack |-> "Pending"]
  ELSE IF Head(q).kind = kind
    THEN [evbuf |-> Tail(q), ack |-> IF Head(q).some THEN "Done" ELSE "Stopped"]
  ELSE [evbuf |-> <<Head(q)>> \o Tail(q), ack |-> "Pending"]

InitEvbuf ==
  /\ ContextUp
  /\ RestNew

\* BotWsMsg::Bin(bin) carrying Registry2BotV0::RegisterCiMachine(Some / None)
\* or RegisterCiRepo(Some / None): the event is pushed at the back.
EvbufRegistry ==
  /\ loop = "select"
  /\ reg_sender.some
  /\ api_cfg.present
  /\ Len(evbuf) < MaxEvents
  /\ \E e \in Events :
       \E d \in {recv_auth(reg_sender.secret_token_buf, api_cfg,
                           EncodeFrame(RegistryKey,
                                       Msg(e.kind, IF e.some THEN 1 ELSE 0, 0)))} :
         /\ SetCtx([Ctx EXCEPT !.reg_sender = BotWsSender(d.buf)])
         /\ evbuf' = IF d.err = "ok" /\ d.msg.tag = e.kind
                       THEN Append(evbuf, Event(d.msg.tag, d.msg.a = 1))
                       ELSE evbuf
  /\ last' = NoEvent
  /\ ctl_reply' = NoReply
  /\ UNCHANGED <<codec, loop, runVars, reconn, ipc, parse, images, net, mf>>

\* Ctl2Bot::AckRegisterCiMachine / AckRegisterCiRepo, with the reply.
EvbufPoll(kind) ==
  /\ loop = "select"
  /\ \E r \in {ack_register_ci(evbuf, kind)}, client_ok \in BOOLEAN :
       /\ evbuf' = r.evbuf
       /\ IpcReply([op |-> "Ack" \o kind, ack |-> r.ack, some |-> TRUE], client_ok)
  /\ SetCtx(Ctx)
  /\ last' = NoEvent
  /\ UNCHANGED <<codec, runVars, reconn, ipc, parse, images, net, mf>>

IpcAckRegisterCiMachine == EvbufPoll("RegisterCiMachine")

IpcAckRegisterCiRepo == EvbufPoll("RegisterCiRepo")

NextEvbuf ==
  \/ EvbufRegistry
  \/ IpcAckRegisterCiMachine
  \/ IpcAckRegisterCiRepo

SpecEvbuf == InitEvbuf /\ [][NextEvbuf]_vars

\* The events of a buffer that are not of the kind, in their order.
RECURSIVE OtherKind(_, _)
OtherKind(q, kind) ==
  IF q = << >> THEN << >>
  ELSE IF Head(q).kind = kind THEN OtherKind(Tail(q), kind)
  ELSE <<Head(q)>> \o OtherKind(Tail(q), kind)

\* The step is a poll of the kind that wrote its reply.
PollStep(kind) ==
  /\ ctl_reply'.op = "Ack" \o kind
  /\ ctl_reply' # ctl_reply \/ evbuf' # evbuf

\* C36: for each of the two polls, once an event of its kind was received
\* and is in the buffer, the next poll of that kind returns Done or Stopped,
\* whatever events of the other kind are in the buffer; a poll leaves the
\* events of the other kind in the buffer, in their order, and it takes at
\* most one event, the one it answers with.
C36_PollFindsItsEvent ==
  [][ \A kind \in EventKinds :
        PollStep(kind)
          => /\ (\E i \in DOMAIN evbuf : evbuf[i].kind = kind)
                  => ctl_reply'.ack \in {"Done", "Stopped"}
             /\ OtherKind(evbuf', kind) = OtherKind(evbuf, kind)
             /\ Len(evbuf') >= Len(evbuf) - 1
             /\ (Len(evbuf') < Len(evbuf)) = (ctl_reply'.ack \in {"Done", "Stopped"}) ]_vars

\* The registry's reply to RegisterCiRepo and then its confirmation of
\* RegisterCiMachine are in the buffer, and the poll AckRegisterCiMachine
\* was answered Pending.
C36_Witness ==
  /\ evbuf = <<Event("RegisterCiRepo", TRUE), Event("RegisterCiMachine", TRUE)>>
  /\ ctl_reply = [op |-> "AckRegisterCiMachine", ack |-> "Pending", some |-> TRUE]
  /\ loop = "select"

-----------------------------------------------------------------------------
(* The temporary checkout directory of a run, checked under SpecRun.       *)

\* The holders of the run's GitCheckoutSpec outside the _NewCiRun arm: the
\* task messages in the queue and the task the worker executes.
CheckoutHolders == Len(workerlb) + (IF worker.state = "running" THEN 1 ELSE 0)

\* C40: the temporary checkout directory created for a CI run is not
\* deleted while a task of that run is queued or executing; it is deleted
\* only when the last holder of the checkout spec has dropped it: the Arc
\* counts the task messages queued and the task executing, the directory
\* exists while the count is positive and is deleted when it is zero.
C40_CheckoutOutlivesTasks ==
  /\ (workerlb # << >> \/ worker.state = "running") => checkout.dir = "temp"
  /\ checkout.dir # "none" => checkout.strong = CheckoutHolders
  /\ checkout.dir = "temp" <=> checkout.strong > 0
  /\ checkout.dir = "deleted" => (workerlb = << >> /\ worker.state # "running")

\* The _NewCiRun arm has ended and dropped its checkout spec; the first
\* task executes and the second is queued, each holding a clone, and the
\* directory is there.
C40_Witness ==
  /\ run.state = "dispatched" /\ run.task_count = 2
  /\ worker.state = "running" /\ worker.task_nr = 1
  /\ workerlb = <<2>>
  /\ checkout = [dir |-> "temp", strong |-> 2]

-----------------------------------------------------------------------------
(* SpecDirective: streams with a directive line the parser has no arm or   *)
(* no argument for.                                                        *)

\* Directive lines: `task` without a version, v0.task and v0.mutable_cache
\* without the ':' that starts the arguments, and with ':' and no argument.
DirectiveFaults ==
  {[kind |-> "unversioned", lines |-> << <<"#-guppy:", "task", ":", "begin">> >>],
   [kind |-> "no_colon", lines |-> << <<"#-guppy:", "v0.task">> >>],
   [kind |-> "no_args", lines |-> << <<"#-guppy:", "v0.task", ":">> >>],
   [kind |-> "no_args", lines |-> << <<"#-guppy:", "v0.task", ":", " ">> >>],
   [kind |-> "no_colon", lines |-> << <<"#-guppy:", "v0.mutable_cache">> >>],
   [kind |-> "no_args", lines |-> << <<"#-guppy:", "v0.mutable_cache", ":">> >>],
   [kind |-> "unknown", lines |-> << <<"#-guppy:", "v1.task", ":", "begin">> >>]}

\* The streams: up to MaxBlocks blocks, then possibly one of the directive
\* lines and possibly one more block.
InitDirective ==
  /\ ContextUp
  /\ reconn = ReconnectNew
  /\ ipc = NoIpc
  /\ images = NoImages
  /\ net = NoNet
  /\ mf = NoMf
  /\ evbuf = NoEvbuf
  /\ \E n \in 0 .. MaxBlocks :
       \E blocks \in [1 .. n -> TaskBlocks], fault \in DirectiveFaults \cup {NoParse.fault} :
         \E tail \in IF fault.kind = "none" THEN {<< >>}
                     ELSE {<< >>, BlockLines(CHOOSE b \in TaskBlocks : b.sh # << >>)} :
           parse = [NoParse EXCEPT !.blocks = blocks, !.fault = fault, !.tail = tail]

SpecDirective == InitDirective /\ [][NextParse]_vars

\* C37: the TaskSpec parser is total: for every input stream it returns a
\* task list or an error value; no directive line (an unversioned `task`
\* directive, a directive with no ':' argument part, a directive with an
\* empty argument list) aborts the thread that runs the parse.
C37_ParserTotal ==
  parse.result.res # "none" => parse.result.res \in {"Ok", "Err"}

\* A well-formed block followed by `#-guppy:v0.task` with no ':' has
\* panicked the parser on directive_toks[1].
C37_Witness ==
  /\ parse.result.res = "panic"
  /\ parse.fault.kind = "no_colon"
  /\ Len(parse.blocks) = 1
  /\ parse.tail = << >>

-----------------------------------------------------------------------------
(* SpecLoad: ImageManifest::load on manifest files with lines that do not  *)
(* read back.                                                              *)

\* The Python3 task image.
python3_image == CHOOSE s \in ImageSpecs : s.toolchain = "Python3"

\* The lines of a manifest file under root_key: the lines dump writes for
\* two ImageSpecs; a line written under another root key and a line whose
\* hash is the hash of another description (bad hash); a line with a part
\* that is no part of a description and one with a value no enum has (bad
\* token); a line without distro_id (missing field).
LoadLines(root_key) ==
  {ManifestLine(builtin_default, root_key),
   ManifestLine(python3_image, root_key),
   ManifestLine(python3_image, IF root_key = KeyA THEN KeyB ELSE KeyA),
   [ManifestLine(python3_image, root_key) EXCEPT !.digest = to_hash_digest(builtin_default, root_key)],
   [ManifestLine(python3_image, root_key) EXCEPT !.parts = Append(@, <<"gpu">>)],
   [ManifestLine(python3_image, root_key) EXCEPT !.parts[1] = <<"distro_codename", "debian_sid">>],
   [ManifestLine(python3_image, root_key) EXCEPT !.parts = <<@[1]>> \o SubSeq(@, 3, Len(@))]}

\* The manifest files: none, and every file of up to MaxManifestLines lines.
LoadFiles(root_key) ==
  {[exists |-> FALSE, lines |-> << >>]}
    \cup {[exists |-> TRUE, lines |-> lines] :
            lines \in UNION {[1 .. n -> LoadLines(root_key)] : n \in 0 .. MaxManifestLines}}

InitLoad ==
  /\ ContextUp
  /\ reconn = ReconnectNew
  /\ ipc = NoIpc
  /\ parse = NoParse
  /\ net = NoNet
  /\ mf = NoMf
  /\ evbuf = NoEvbuf
  /\ \E root_key \in {KeyA, KeyB} :
       \E disk \in LoadFiles(root_key) :
         images = [NoImages EXCEPT !.root_key = root_key, !.disk = disk,
                                   !.last.pre_disk = disk]

NextLoad == ImageLoad

SpecLoad == InitLoad /\ [][NextLoad]_vars

\* The stored hash of the line equals the keyed hash recomputed from the
\* line's description under the root key.
LineVerifies(line, root_key) ==
  \E s \in {manifest_line(line, root_key)} : s.ok /\ line = ManifestLine(s.image, root_key)

====
